---- MODULE Spec2Model ----
(***************************************************************************)
(* segue-attacca: library ingestion and deduplication                      *)
(* (segue-attacca-lib/src/music_library.rs, src/music.rs), the tag         *)
(* garbage collector and the playlist playback iterator.                   *)
(*                                                                         *)
(* Values.  A str is a sequence of character codes.  A file name is the    *)
(* sequence of its '.'-separated segments (each a TLA+ string), a path is  *)
(* the sequence of its components (each a file name).  Option<T> is a      *)
(* sequence of length 0 (None) or 1 (Some).  An Arc<str> is a record       *)
(* [id, val]: id is the identity of the allocation, val the string.  An    *)
(* Arc<RwLock<Track>> is a record whose id is the identity of the          *)
(* allocation.                                                             *)
(***************************************************************************)
EXTENDS Naturals, Integers, Sequences, FiniteSets, TLC

VARIABLES
    impl,                \* "lib" (segue-attacca-lib) | "gui" (src/music.rs) | "none"
    rootOk,              \* read_dir(path) of the root succeeds
    dirEntries,          \* the directory tree below the root (set of entries)
    snapFile,            \* content of <root>/music_library.json
    loadedFile,          \* what the latest new_from_path call found that file to hold
    strayFile,           \* content of <OtherPath>/music_library.json, the file of
                         \* the root that a snapshot made elsewhere names
    pc,                  \* position of the thread that runs new_from_path / owns the library
    lib,                 \* the MusicLibrary value
    read_queue,          \* the scanner's work list (Vec<DirEntry>, popped at the end)
    visited_track_paths, \* HashSet of the paths already cataloged
    artists,             \* scc::HashMap value -> Arc<str>
    tags,                \* scc::HashMap value -> Arc<str>
    tracks,              \* scc::HashMap path -> Arc<RwLock<Track>>
    playlists,           \* scc::HashMap uuid -> Arc<RwLock<Playlist>>
    work,                \* per track: position of the rayon task that canonicalizes it
    nextId,              \* next allocation identity
    opens,               \* number of new_from_path calls made so far
    openLog,             \* per Ok of new_from_path: the paths and fields of its tracks
                         \* and the operation that preceded the call
    lastOp,              \* last operation on the library: "none", "open",
                         \* "add_tag", "untag", "gc_tags", "drop_saved", "drop_unsaved"
    playlist,            \* the src/music.rs Playlist that is iterated
    pulled,              \* results of the next() calls made so far
    compared             \* the src/music.rs libraries handed to ==, the iteration
                         \* orders of their tag maps, and the results

vars == <<impl, rootOk, dirEntries, snapFile, loadedFile, strayFile, pc, lib, read_queue,
          visited_track_paths, artists, tags, tracks, playlists, work,
          nextId, opens, openLog, lastOp, playlist, pulled, compared>>

fsVars   == <<rootOk, dirEntries>>
mapVars  == <<artists, tags, tracks, playlists>>
playVars == <<playlist, pulled>>

----------------------------------------------------------------------------
(* Bounds *)

MaxSnapTracks == 2      \* tracks in a snapshot file
MaxTrackTags  == 2      \* tags carried by one track
MaxSnapPlaylists == 2   \* playlists in a snapshot file
MaxSnapStrs   == 2      \* artist and tag strings in a snapshot file
MaxDirEntries == 3      \* entries of a scanned directory tree
MaxOpens      == 2      \* new_from_path calls in one behaviour
MaxItems      == 3      \* items of the iterated playlist
MaxPulls      == 7      \* next() calls on the iterated playlist
MaxAllocs     == 4      \* Arc<str> allocations made by add_tag in one behaviour

----------------------------------------------------------------------------
(* Option and sequence helpers *)

None == <<>>
Some(x) == <<x>>
IsSome(o) == Len(o) = 1
Unwrap(o) == o[1]

Range(s) == {s[i] : i \in DOMAIN s}

RECURSIVE SetToSeqs(_)
\* every ordering of a finite set (the order read_dir / a hash map yields is unspecified)
SetToSeqs(S) ==
    IF S = {} THEN {<<>>}
    ELSE UNION {{<<x>> \o t : t \in SetToSeqs(S \ {x})} : x \in S}

SeqsUpTo(S, n) == UNION {[1..k -> S] : k \in 0..n}

RemoveAt(s, i) == SubSeq(s, 1, i - 1) \o SubSeq(s, i + 1, Len(s))

\* the sequence as it is, the .rev() left out
NoReverse(s) == s

Reverse(s) == [i \in 1..Len(s) |-> s[Len(s) + 1 - i]]

----------------------------------------------------------------------------
(* The file system *)

\* file names, as '.'-separated segments
NameA      == <<"a", "mp3">>
NameB      == <<"b", "wav">>
NameC      == <<"c", "flac">>
NameNotes  == <<"notes", "txt">>
NameHidden == <<"", "mp3">>          \* ".mp3"
NameBare   == <<"mp3">>              \* "mp3", no '.'
NameSub    == <<"sub">>
NameSnap   == <<"music_library", "json">>

Entry(d, n, k, t, l, u) ==
    [dir |-> d, name |-> n, kind |-> k, typeOk |-> t, listable |-> l, utf8 |-> u]

\* candidate directory entries; dir is the root-relative path of the parent
EntryUniverse ==
    { Entry(<<>>, NameA, "file", TRUE, TRUE, TRUE),
      Entry(<<>>, NameC, "file", TRUE, TRUE, TRUE),
      Entry(<<>>, NameNotes, "file", TRUE, TRUE, TRUE),
      Entry(<<>>, NameHidden, "file", TRUE, TRUE, TRUE),
      Entry(<<>>, NameBare, "file", TRUE, TRUE, TRUE),
      Entry(<<>>, NameSub, "dir", TRUE, TRUE, TRUE),
      Entry(<<NameSub>>, NameB, "file", TRUE, TRUE, TRUE),
      Entry(<<NameSub>>, NameA, "symlink", TRUE, TRUE, TRUE) }

\* entries that cannot be fully read
BadEntryUniverse ==
    { Entry(<<>>, NameB, "file", FALSE, TRUE, TRUE),      \* file_type() fails
      Entry(<<>>, NameSub, "dir", TRUE, FALSE, TRUE),     \* read_dir() of it fails
      Entry(<<>>, NameC, "file", TRUE, TRUE, FALSE) }     \* name is not UTF-8

EntryPath(e) == Append(e.dir, e.name)

\* a tree: every entry's parent is the root or a directory of the tree, and
\* no two entries have the same path
IsTree(T) ==
    /\ \A e \in T : e.dir = <<>> \/ \E d \in T : d.kind = "dir" /\ EntryPath(d) = e.dir
    /\ \A e, f \in T : EntryPath(e) = EntryPath(f) => e = f

Trees(U) == {T \in SUBSET U : IsTree(T)}

AllReadable(T) == \A e \in T : e.typeOk /\ e.listable /\ e.utf8

\* the entry of the snapshot file itself, when the file exists
SnapEntry == Entry(<<>>, NameSnap, "file", TRUE, TRUE, TRUE)

Children(d) ==
    {e \in dirEntries : e.dir = d}
        \cup (IF d = <<>> /\ snapFile.kind # "absent" THEN {SnapEntry} ELSE {})

\* Path::extension of a file name: None without an embedded '.', None for a
\* name that begins with '.' and has no other '.', else the part after the
\* last '.'
Extension(name) ==
    IF Len(name) < 2 THEN None
    ELSE IF Len(name) = 2 /\ name[1] = "" THEN None
    ELSE Some(name[Len(name)])

----------------------------------------------------------------------------
(* Strings carried by tracks: "R", "r", "j" as character codes *)

StrR == <<82>>
StrLowR == <<114>>
StrJ == <<106>>
TagVals == {StrLowR, StrJ}
ArtistVals == {StrR}

RootPath == "root"
OtherPath == "elsewhere"

----------------------------------------------------------------------------
(* The snapshot file music_library.json *)

TrackData(p, n, a, art, tg) ==
    [path |-> p, name |-> n, artist |-> a, album_art |-> art, tags |-> tg]

LibData(p, ts, ps, as, tg) ==
    [kind |-> "json", path |-> p, tracks |-> ts, playlists |-> ps,
     artists |-> as, tags |-> tg]

NoFile(k) ==
    [kind |-> k, path |-> "", tracks |-> <<>>, playlists |-> <<>>,
     artists |-> <<>>, tags |-> <<>>]

AbsentFile == NoFile("absent")
UnopenableFile == NoFile("unopenable")   \* File::open fails
CorruptFile == NoFile("corrupt")         \* serde_json::from_reader fails

\* serialized playlist items: a Track item carries the track's fields, a
\* Playlist item the upgraded target (Some(uuid)) or null, a Block its items
TrackItemData(p) == [kind |-> "Track", path |-> p, target |-> None, items |-> <<>>]
PlaylistItemData(t) == [kind |-> "Playlist", path |-> <<>>, target |-> t, items |-> <<>>]
BlockItemData(its) == [kind |-> "Block", path |-> <<>>, target |-> None, items |-> its]

PlaylistData(n, its, u) == [name |-> n, items |-> its, uuid |-> u]

----------------------------------------------------------------------------
(* Allocation identities.  gen numbers the new_from_path call, kind the     *)
(* field the allocation is made for, i and j the position inside it.        *)

Id(gen, kind, i, j) == <<gen, kind, i, j>>
NoId == <<0, "none", 0, 0>>

Arc(id, v) == [id |-> id, val |-> v]

\* serde: every Arc of the file becomes an allocation of its own
LoadTrack(gen, i, d) ==
    [id |-> Id(gen, "track", i, 0),
     path |-> d.path,
     name |-> d.name,
     artist |-> IF IsSome(d.artist)
                THEN Some(Arc(Id(gen, "artist", i, 0), Unwrap(d.artist)))
                ELSE None,
     album_art |-> d.album_art,
     tags |-> [j \in DOMAIN d.tags |-> Arc(Id(gen, "tag", i, j), d.tags[j])]]

RECURSIVE LoadItem(_, _, _)
\* serde's Deserialize for Weak parses the value and returns Weak::new():
\* a loaded Playlist item never upgrades
LoadItem(gen, n, d) ==
    IF d.kind = "Track"
    THEN [kind |-> "Track", track |-> [id |-> Id(gen, "item", n, 0), path |-> d.path],
          weak |-> None, items |-> <<>>]
    ELSE IF d.kind = "Playlist"
    THEN [kind |-> "Playlist", track |-> [id |-> NoId, path |-> <<>>],
          weak |-> None, items |-> <<>>]
    ELSE [kind |-> "Block", track |-> [id |-> NoId, path |-> <<>>], weak |-> None,
          items |-> [k \in DOMAIN d.items |-> LoadItem(gen, n * 4 + k, d.items[k])]]

LoadPlaylist(gen, i, d) ==
    [id |-> Id(gen, "playlist", i, 0),
     name |-> d.name,
     items |-> [k \in DOMAIN d.items |-> LoadItem(gen, i * 4 + k, d.items[k])],
     uuid |-> d.uuid]

EmptyLib(p) ==
    [path |-> p, tracks |-> <<>>, playlists |-> <<>>, artists |-> <<>>, tags |-> <<>>]

\* serde_json::from_reader of a parseable file
Deserialize(gen, f) ==
    [path |-> f.path,
     tracks |-> [i \in DOMAIN f.tracks |-> LoadTrack(gen, i, f.tracks[i])],
     playlists |-> [i \in DOMAIN f.playlists |-> LoadPlaylist(gen, i, f.playlists[i])],
     artists |-> [i \in DOMAIN f.artists |-> Arc(Id(gen, "lib_artist", i, 0), f.artists[i])],
     tags |-> [i \in DOMAIN f.tags |-> Arc(Id(gen, "lib_tag", i, 0), f.tags[i])]]

\* a serializer that leaves the tags of a track out
SaveTrackNoTags(t) ==
    TrackData(t.path, t.name,
              IF IsSome(t.artist) THEN Some(Unwrap(t.artist).val) ELSE None,
              t.album_art,
              <<>>)

SaveTrack(t) ==
    TrackData(t.path, t.name,
              IF IsSome(t.artist) THEN Some(Unwrap(t.artist).val) ELSE None,
              t.album_art,
              [j \in DOMAIN t.tags |-> t.tags[j].val])

RECURSIVE SaveItem(_, _)
\* a Weak serializes as its upgrade: the target playlist or null
SaveItem(l, it) ==
    IF it.kind = "Track" THEN TrackItemData(it.track.path)
    ELSE IF it.kind = "Playlist"
    THEN PlaylistItemData(
            IF IsSome(it.weak)
               /\ \E k \in DOMAIN l.playlists : l.playlists[k].id = Unwrap(it.weak)
            THEN Some((CHOOSE q \in Range(l.playlists) : q.id = Unwrap(it.weak)).uuid)
            ELSE None)
    ELSE BlockItemData([k \in DOMAIN it.items |-> SaveItem(l, it.items[k])])

SavePlaylist(l, q) ==
    PlaylistData(q.name, [k \in DOMAIN q.items |-> SaveItem(l, q.items[k])], q.uuid)

\* serde_json::to_vec_pretty(self)
Serialize(l) ==
    LibData(l.path,
            [i \in DOMAIN l.tracks |-> SaveTrack(l.tracks[i])],
            [i \in DOMAIN l.playlists |-> SavePlaylist(l, l.playlists[i])],
            [i \in DOMAIN l.artists |-> l.artists[i].val],
            [i \in DOMAIN l.tags |-> l.tags[i].val])

\* Drop for MusicLibrary: File::create may fail (the file is left alone),
\* write_all may fail after the file was truncated, or the file is written;
\* every error is swallowed
DropOutcomesAt(l, old) ==
    { [file |-> Serialize(l), op |-> "drop_saved"],
      [file |-> old, op |-> "drop_unsaved"],
      [file |-> CorruptFile, op |-> "drop_unsaved"] }

\* a drop of a library whose path is the root
DropOutcomes(l) == DropOutcomesAt(l, snapFile)

----------------------------------------------------------------------------
(* Concurrent maps (scc::HashMap) as functions with a finite domain *)

EmptyMap == <<>>

\* an insert that replaces the entry of a present key and reports Ok
MapInsertPut(m, k, v) ==
    [ok |-> TRUE, map |-> [x \in DOMAIN m \cup {k} |-> IF x = k THEN v ELSE m[x]]]

\* scc::HashMap::insert: Err, and no change, when the key is present
MapInsert(m, k, v) ==
    IF k \in DOMAIN m
    THEN [ok |-> FALSE, map |-> m]
    ELSE [ok |-> TRUE, map |-> m @@ (k :> v)]

\* scc::HashMap::read
ReadMap(m, k) == IF k \in DOMAIN m THEN Some(m[k]) ELSE None

----------------------------------------------------------------------------
(* Worker positions *)

Slot(st, out) == [st |-> st, out |-> out]

\* the task of one track: its pc, the outcome of its artists.insert ("na"
\* before it, then "won" or "lost") and one slot per tag of the inner
\* par_iter: "todo", "won" (insert was Ok), "lost" (insert was Err), "read"
\* (the winner was read); out is the Arc the slot yields
IdleTask(t) ==
    [pc |-> "idle", artist |-> "na",
     slots |-> [j \in DOMAIN t.tags |-> Slot("todo", t.tags[j])]]

Panicked == pc \in {"panic_intern", "panic_register", "panic_gc"}

NoWork == [t |-> <<>>, p |-> <<>>]

IdlePlay ==
    [name |-> None, items |-> <<>>, playback_mode |-> "Continuous", play_queue |-> <<>>,
     first |-> TRUE, origin |-> "none"]

TrackPaths(l) == {l.tracks[i].path : i \in DOMAIN l.tracks}

\* lines 304-311: the fields of the catalog's tracks, strings by value
TrackFields(l) ==
    [i \in DOMAIN l.tracks |->
        [path |-> l.tracks[i].path,
         name |-> l.tracks[i].name,
         artist |-> [k \in DOMAIN l.tracks[i].artist |-> l.tracks[i].artist[k].val],
         album_art |-> l.tracks[i].album_art,
         tags |-> [k \in DOMAIN l.tracks[i].tags |-> l.tracks[i].tags[k].val]]]

----------------------------------------------------------------------------
(* segue-attacca-lib: MusicLibrary::new_from_path *)

\* new_from_path that keeps the root path the snapshot embeds
LibOpenKeepsPath ==
    /\ impl = "lib"
    /\ pc = "start"
    /\ opens < MaxOpens
    /\ opens' = opens + 1
    /\ loadedFile' = IF rootOk THEN snapFile ELSE loadedFile
    /\ IF ~rootOk
       THEN /\ \E o \in DropOutcomes(EmptyLib(RootPath)) : snapFile' = o.file
            /\ pc' = "err"
            /\ lib' = EmptyLib(RootPath)
            /\ read_queue' = <<>>
            /\ visited_track_paths' = {}
       ELSE /\ \E q \in SetToSeqs(Children(<<>>)) : read_queue' = q
            /\ IF snapFile.kind = "json"
               THEN /\ lib' = Deserialize(opens + 1, snapFile)
                    /\ \E o \in DropOutcomes(EmptyLib(RootPath)) : snapFile' = o.file
               ELSE /\ lib' = EmptyLib(RootPath)
                    /\ snapFile' = snapFile
            /\ visited_track_paths' = TrackPaths(lib')
            /\ pc' = "scan"
    /\ UNCHANGED <<impl, compared, strayFile, fsVars, mapVars, work, nextId, openLog, lastOp, playVars>>

\* new_from_path that takes a snapshot it cannot read for the whole catalog
\* and scans nothing
LibOpenNoScan ==
    /\ impl = "lib"
    /\ pc = "start"
    /\ opens < MaxOpens
    /\ opens' = opens + 1
    /\ loadedFile' = IF rootOk THEN snapFile ELSE loadedFile
    /\ IF ~rootOk
       THEN /\ \E o \in DropOutcomes(EmptyLib(RootPath)) : snapFile' = o.file
            /\ pc' = "err"
            /\ lib' = EmptyLib(RootPath)
            /\ read_queue' = <<>>
            /\ visited_track_paths' = {}
       ELSE /\ IF snapFile.kind = "json"
               THEN /\ lib' = [Deserialize(opens + 1, snapFile) EXCEPT !.path = RootPath]
                    /\ \E o \in DropOutcomes(EmptyLib(RootPath)) : snapFile' = o.file
                    /\ \E q \in SetToSeqs(Children(<<>>)) : read_queue' = q
               ELSE /\ lib' = EmptyLib(RootPath)
                    /\ snapFile' = snapFile
                    /\ read_queue' = <<>>
            /\ visited_track_paths' = TrackPaths(lib')
            /\ pc' = "scan"
    /\ UNCHANGED <<impl, compared, strayFile, fsVars, mapVars, work, nextId, openLog, lastOp, playVars>>

\* lines 27-69: build the empty library, list the root, load the snapshot,
\* collect the known paths.  `lib = library` drops the empty library built
\* first, and that drop writes it to <root>/music_library.json.
LibOpen ==
    /\ impl = "lib"
    /\ pc = "start"
    /\ opens < MaxOpens
    /\ opens' = opens + 1
    /\ loadedFile' = IF rootOk THEN snapFile ELSE loadedFile
    /\ IF ~rootOk
       THEN \* read_dir(path)? returns the error; the empty library is dropped
            /\ \E o \in DropOutcomes(EmptyLib(RootPath)) : snapFile' = o.file
            /\ pc' = "err"
            /\ lib' = EmptyLib(RootPath)
            /\ read_queue' = <<>>
            /\ visited_track_paths' = {}
       ELSE /\ \E q \in SetToSeqs(Children(<<>>)) : read_queue' = q
            /\ IF snapFile.kind = "json"
               THEN /\ lib' = [Deserialize(opens + 1, snapFile) EXCEPT !.path = RootPath]
                    /\ \E o \in DropOutcomes(EmptyLib(RootPath)) : snapFile' = o.file
               ELSE /\ lib' = EmptyLib(RootPath)
                    /\ snapFile' = snapFile
            /\ visited_track_paths' = TrackPaths(lib')
            /\ pc' = "scan"
    /\ UNCHANGED <<impl, compared, strayFile, fsVars, mapVars, work, nextId, openLog, lastOp, playVars>>

LibExtensions == {"wav", "mp3", "flac"}

ScannedTrack(gen, n, e) ==
    [id |-> Id(gen, "scan", n, 0), path |-> EntryPath(e), name |-> e.name,
     artist |-> None, album_art |-> None, tags |-> <<>>]

\* a work-list loop that gives up at an entry whose type cannot be read
LibScanStepAbort ==
    /\ impl = "lib"
    /\ pc = "scan"
    /\ read_queue # <<>>
    /\ LET item == read_queue[Len(read_queue)]
           rest == SubSeq(read_queue, 1, Len(read_queue) - 1)
       IN  IF ~item.typeOk
           THEN /\ read_queue' = <<>>
                /\ UNCHANGED <<lib, visited_track_paths>>
           ELSE IF item.kind = "file"
           THEN /\ read_queue' = rest
                /\ IF /\ IsSome(Extension(item.name))
                      /\ item.utf8
                      /\ Unwrap(Extension(item.name)) \in LibExtensions
                      /\ EntryPath(item) \notin visited_track_paths
                   THEN /\ lib' = [lib EXCEPT !.tracks =
                              Append(@, ScannedTrack(opens, Len(lib.tracks) + 1, item))]
                        /\ visited_track_paths' =
                              visited_track_paths \cup {EntryPath(item)}
                   ELSE UNCHANGED <<lib, visited_track_paths>>
           ELSE IF item.kind = "dir" /\ item.listable
           THEN /\ \E q \in SetToSeqs(Children(EntryPath(item))) :
                        read_queue' = rest \o q
                /\ UNCHANGED <<lib, visited_track_paths>>
           ELSE /\ read_queue' = rest
                /\ UNCHANGED <<lib, visited_track_paths>>
    /\ UNCHANGED <<impl, compared, loadedFile, strayFile, fsVars, snapFile, pc, mapVars, work, nextId, opens,
                   openLog, lastOp, playVars>>

\* lines 71-132: one iteration of the work-list loop
LibScanStep ==
    /\ impl = "lib"
    /\ pc = "scan"
    /\ read_queue # <<>>
    /\ LET item == read_queue[Len(read_queue)]
           rest == SubSeq(read_queue, 1, Len(read_queue) - 1)
       IN  IF ~item.typeOk
           THEN /\ read_queue' = rest
                /\ UNCHANGED <<lib, visited_track_paths>>
           ELSE IF item.kind = "file"
           THEN /\ read_queue' = rest
                /\ IF /\ IsSome(Extension(item.name))
                      /\ item.utf8
                      /\ Unwrap(Extension(item.name)) \in LibExtensions
                      /\ EntryPath(item) \notin visited_track_paths
                   THEN /\ lib' = [lib EXCEPT !.tracks =
                              Append(@, ScannedTrack(opens, Len(lib.tracks) + 1, item))]
                        /\ visited_track_paths' =
                              visited_track_paths \cup {EntryPath(item)}
                   ELSE UNCHANGED <<lib, visited_track_paths>>
           ELSE IF item.kind = "dir" /\ item.listable
           THEN /\ \E q \in SetToSeqs(Children(EntryPath(item))) :
                        read_queue' = rest \o q
                /\ UNCHANGED <<lib, visited_track_paths>>
           ELSE /\ read_queue' = rest
                /\ UNCHANGED <<lib, visited_track_paths>>
    /\ UNCHANGED <<impl, compared, loadedFile, strayFile, fsVars, snapFile, pc, mapVars, work, nextId, opens,
                   openLog, lastOp, playVars>>

\* lines 134-139: the four lookup maps are created and the canonicalization
\* pass fans out, one task per track
LibSpawn ==
    /\ impl = "lib"
    /\ pc = "scan"
    /\ read_queue = <<>>
    /\ pc' = "canon"
    /\ artists' = EmptyMap
    /\ tags' = EmptyMap
    /\ tracks' = EmptyMap
    /\ playlists' = EmptyMap
    /\ work' = [t |-> [i \in DOMAIN lib.tracks |-> IdleTask(lib.tracks[i])],
                p |-> [i \in DOMAIN lib.playlists |-> "idle"]]
    /\ UNCHANGED <<impl, compared, loadedFile, strayFile, fsVars, snapFile, lib, read_queue, visited_track_paths,
                   nextId, opens, openLog, lastOp, playVars>>

TaskDone(i) == work.t[i].pc = "done"
AllTasksDone == \A i \in DOMAIN work.t : TaskDone(i)

SetTask(i, task) == [work EXCEPT !.t[i] = task]

\* lines 140-144: the task takes the track's write lock, registers the track
\* under its path (a second track with the same path is ignored) and reads
\* the artist
WorkerStart(i) ==
    /\ pc = "canon"
    /\ work.t[i].pc = "idle"
    /\ tracks' = MapInsert(tracks, lib.tracks[i].path, lib.tracks[i].id).map
    /\ work' = SetTask(i, [work.t[i] EXCEPT !.pc =
                    IF IsSome(lib.tracks[i].artist) THEN "artist" ELSE "tags"])
    /\ UNCHANGED <<impl, compared, loadedFile, strayFile, fsVars, snapFile, pc, lib, read_queue, visited_track_paths,
                   artists, tags, playlists, nextId, opens, openLog, lastOp, playVars>>

\* lines 145-149: artists.insert(artist_key, artist)
WorkerArtistInsert(i) ==
    /\ pc = "canon"
    /\ work.t[i].pc = "artist"
    /\ LET a == Unwrap(lib.tracks[i].artist)
           r == MapInsert(artists, a.val, a)
       IN  /\ artists' = r.map
           /\ work' = SetTask(i, [work.t[i] EXCEPT
                           !.pc = IF r.ok THEN "tags" ELSE "artist_read",
                           !.artist = IF r.ok THEN "won" ELSE "lost"])
    /\ UNCHANGED <<impl, compared, loadedFile, strayFile, fsVars, snapFile, pc, lib, read_queue, visited_track_paths,
                   tags, tracks, playlists, nextId, opens, openLog, lastOp, playVars>>

\* line 150: the insertion lost; track.artist = artists.read(key)
WorkerArtistRead(i) ==
    /\ pc = "canon"
    /\ work.t[i].pc = "artist_read"
    /\ lib' = [lib EXCEPT !.tracks[i].artist =
                   ReadMap(artists, Unwrap(lib.tracks[i].artist).val)]
    /\ work' = SetTask(i, [work.t[i] EXCEPT !.pc = "tags"])
    /\ UNCHANGED <<impl, compared, loadedFile, strayFile, fsVars, snapFile, pc, read_queue, visited_track_paths,
                   mapVars, nextId, opens, openLog, lastOp, playVars>>

\* lines 153-154, 161-163: tags.insert(tag, tag) for the j-th tag of the track
WorkerTagInsert(i, j) ==
    /\ pc = "canon"
    /\ work.t[i].pc = "tags"
    /\ work.t[i].slots[j].st = "todo"
    /\ LET tag == lib.tracks[i].tags[j]
           r == MapInsert(tags, tag.val, tag)
       IN  /\ tags' = r.map
           /\ work' = SetTask(i, [work.t[i] EXCEPT !.slots[j] =
                           IF r.ok THEN Slot("won", tag) ELSE Slot("lost", tag)])
    /\ UNCHANGED <<impl, compared, loadedFile, strayFile, fsVars, snapFile, pc, lib, read_queue, visited_track_paths,
                   artists, tracks, playlists, nextId, opens, openLog, lastOp, playVars>>

\* lines 155-160: the insertion lost; read the winner, unreachable!() if the
\* key is not there
WorkerTagRead(i, j) ==
    /\ pc = "canon"
    /\ work.t[i].pc = "tags"
    /\ work.t[i].slots[j].st = "lost"
    /\ LET r == ReadMap(tags, lib.tracks[i].tags[j].val)
       IN  IF IsSome(r)
           THEN /\ work' = SetTask(i, [work.t[i] EXCEPT !.slots[j] =
                                Slot("read", Unwrap(r))])
                /\ UNCHANGED <<pc, snapFile>>
           ELSE /\ pc' = "panic_intern"
                /\ \E o \in DropOutcomes(lib) : snapFile' = o.file
                /\ UNCHANGED work
    /\ UNCHANGED <<impl, compared, loadedFile, strayFile, fsVars, lib, read_queue, visited_track_paths,
                   mapVars, nextId, opens, openLog, lastOp, playVars>>

\* a task that collects the tags last to first
WorkerCollectReversed(i) ==
    /\ pc = "canon"
    /\ work.t[i].pc = "tags"
    /\ \A j \in DOMAIN work.t[i].slots : work.t[i].slots[j].st \in {"won", "read"}
    /\ lib' = [lib EXCEPT !.tracks[i].tags =
                   Reverse([j \in DOMAIN work.t[i].slots |-> work.t[i].slots[j].out])]
    /\ work' = SetTask(i, [work.t[i] EXCEPT !.pc = "done"])
    /\ UNCHANGED <<impl, compared, loadedFile, strayFile, fsVars, snapFile, pc, read_queue, visited_track_paths,
                   mapVars, nextId, opens, openLog, lastOp, playVars>>

\* a task that drops the collected tags and leaves the track as it was
WorkerCollectKeep(i) ==
    /\ pc = "canon"
    /\ work.t[i].pc = "tags"
    /\ \A j \in DOMAIN work.t[i].slots : work.t[i].slots[j].st \in {"won", "read"}
    /\ work' = SetTask(i, [work.t[i] EXCEPT !.pc = "done"])
    /\ UNCHANGED <<impl, compared, loadedFile, strayFile, fsVars, snapFile, pc, lib, read_queue, visited_track_paths,
                   mapVars, nextId, opens, openLog, lastOp, playVars>>

\* lines 153, 164-166: the inner par_iter is collected in the order of the
\* original tags and stored; the write lock is released
WorkerCollect(i) ==
    /\ pc = "canon"
    /\ work.t[i].pc = "tags"
    /\ \A j \in DOMAIN work.t[i].slots : work.t[i].slots[j].st \in {"won", "read"}
    /\ lib' = [lib EXCEPT !.tracks[i].tags =
                   [j \in DOMAIN work.t[i].slots |-> work.t[i].slots[j].out]]
    /\ work' = SetTask(i, [work.t[i] EXCEPT !.pc = "done"])
    /\ UNCHANGED <<impl, compared, loadedFile, strayFile, fsVars, snapFile, pc, read_queue, visited_track_paths,
                   mapVars, nextId, opens, openLog, lastOp, playVars>>

\* registration that ignores a failed insert, as line 141 does for tracks
RegisterPlaylistIgnore(i) ==
    /\ pc = "canon"
    /\ AllTasksDone
    /\ work.p[i] = "idle"
    /\ playlists' = MapInsert(playlists, lib.playlists[i].uuid, lib.playlists[i].id).map
    /\ work' = [work EXCEPT !.p[i] = "registered"]
    /\ UNCHANGED <<pc, snapFile>>
    /\ UNCHANGED <<impl, compared, loadedFile, strayFile, fsVars, lib, read_queue, visited_track_paths,
                   artists, tags, tracks, nextId, opens, openLog, lastOp, playVars>>

\* lines 168-177: playlists.insert(uuid, playlist); a second playlist with
\* the same uuid reaches unreachable!(), the panic unwinds new_from_path and
\* the library is dropped
RegisterPlaylist(i) ==
    /\ pc = "canon"
    /\ AllTasksDone
    /\ work.p[i] = "idle"
    /\ LET r == MapInsert(playlists, lib.playlists[i].uuid, lib.playlists[i].id)
       IN  IF r.ok
           THEN /\ playlists' = r.map
                /\ work' = [work EXCEPT !.p[i] = "registered"]
                /\ UNCHANGED <<pc, snapFile>>
           ELSE /\ pc' = "panic_register"
                /\ \E o \in DropOutcomes(lib) : snapFile' = o.file
                /\ UNCHANGED <<playlists, work>>
    /\ UNCHANGED <<impl, compared, loadedFile, strayFile, fsVars, lib, read_queue, visited_track_paths,
                   artists, tags, tracks, nextId, opens, openLog, lastOp, playVars>>

RECURSIVE DedupItemKeepDangling(_)
\* dedup_item that leaves a Playlist item it cannot resolve in place
DedupItemKeepDangling(item) ==
    IF item.kind = "Track"
    THEN LET r == ReadMap(tracks, item.track.path)
         IN  IF IsSome(r)
             THEN Some([item EXCEPT !.track = [id |-> Unwrap(r), path |-> item.track.path]])
             ELSE None
    ELSE IF item.kind = "Playlist"
    THEN IF IsSome(item.weak)
            /\ \E k \in DOMAIN lib.playlists : lib.playlists[k].id = Unwrap(item.weak)
         THEN LET target == CHOOSE q \in Range(lib.playlists) : q.id = Unwrap(item.weak)
                  r == ReadMap(playlists, target.uuid)
              IN  IF IsSome(r) THEN Some([item EXCEPT !.weak = r]) ELSE Some(item)
         ELSE Some(item)
    ELSE LET sub == [k \in DOMAIN item.items |-> DedupItemKeepDangling(item.items[k])]
             keep == SelectSeq(sub, IsSome)
         IN  Some([item EXCEPT !.items = [k \in DOMAIN keep |-> Unwrap(keep[k])]])

RECURSIVE DedupItemDropEmptyBlock(_)
\* dedup_item that drops a Block left without children
DedupItemDropEmptyBlock(item) ==
    IF item.kind = "Track"
    THEN LET r == ReadMap(tracks, item.track.path)
         IN  IF IsSome(r)
             THEN Some([item EXCEPT !.track = [id |-> Unwrap(r), path |-> item.track.path]])
             ELSE None
    ELSE IF item.kind = "Playlist"
    THEN IF IsSome(item.weak)
            /\ \E k \in DOMAIN lib.playlists : lib.playlists[k].id = Unwrap(item.weak)
         THEN LET target == CHOOSE q \in Range(lib.playlists) : q.id = Unwrap(item.weak)
                  r == ReadMap(playlists, target.uuid)
              IN  IF IsSome(r) THEN Some([item EXCEPT !.weak = r]) ELSE None
         ELSE None
    ELSE LET sub == [k \in DOMAIN item.items |-> DedupItemDropEmptyBlock(item.items[k])]
             keep == SelectSeq(sub, IsSome)
         IN  IF keep = <<>> THEN None
             ELSE Some([item EXCEPT !.items = [k \in DOMAIN keep |-> Unwrap(keep[k])]])

RECURSIVE DedupItem(_)
\* lines 180-216: dedup_item; the result is an Option
DedupItem(item) ==
    IF item.kind = "Track"
    THEN LET r == ReadMap(tracks, item.track.path)
         IN  IF IsSome(r)
             THEN Some([item EXCEPT !.track = [id |-> Unwrap(r), path |-> item.track.path]])
             ELSE None
    ELSE IF item.kind = "Playlist"
    THEN IF IsSome(item.weak)
            /\ \E k \in DOMAIN lib.playlists : lib.playlists[k].id = Unwrap(item.weak)
         THEN LET target == CHOOSE q \in Range(lib.playlists) : q.id = Unwrap(item.weak)
                  r == ReadMap(playlists, target.uuid)
              IN  IF IsSome(r) THEN Some([item EXCEPT !.weak = r]) ELSE None
         ELSE None
    ELSE LET sub == [k \in DOMAIN item.items |-> DedupItem(item.items[k])]
             keep == SelectSeq(sub, IsSome)
         IN  Some([item EXCEPT !.items = [k \in DOMAIN keep |-> Unwrap(keep[k])]])

\* lines 218-222: filter_map(dedup_item) over the items of one playlist
DedupItems(items) ==
    LET sub == [k \in DOMAIN items |-> DedupItem(items[k])]
        keep == SelectSeq(sub, IsSome)
    IN  [k \in DOMAIN keep |-> Unwrap(keep[k])]

AllRegistered == \A i \in DOMAIN work.p : work.p[i] # "idle"
AllResolved == \A i \in DOMAIN work.p : work.p[i] = "resolved"

\* lines 178-224: the task of one playlist rewrites its items
ResolvePlaylist(i) ==
    /\ pc = "canon"
    /\ AllTasksDone
    /\ AllRegistered
    /\ work.p[i] = "registered"
    /\ lib' = [lib EXCEPT !.playlists[i].items = DedupItems(@)]
    /\ work' = [work EXCEPT !.p[i] = "resolved"]
    /\ UNCHANGED <<impl, compared, loadedFile, strayFile, fsVars, snapFile, pc, read_queue, visited_track_paths,
                   mapVars, nextId, opens, openLog, lastOp, playVars>>

\* a return that appends the map entries to the tables the snapshot held
LibFinishKeepLoaded ==
    /\ impl = "lib"
    /\ pc = "canon"
    /\ AllTasksDone
    /\ AllResolved
    /\ \E as \in SetToSeqs({artists[k] : k \in DOMAIN artists}),
          tg \in SetToSeqs({tags[k] : k \in DOMAIN tags}) :
            lib' = [lib EXCEPT !.artists = @ \o as, !.tags = @ \o tg]
    /\ pc' = "opened"
    /\ openLog' = Append(openLog, [paths |-> TrackPaths(lib), tracks |-> TrackFields(lib),
                                    after |-> lastOp])
    /\ lastOp' = "open"
    /\ artists' = EmptyMap
    /\ tags' = EmptyMap
    /\ tracks' = EmptyMap
    /\ playlists' = EmptyMap
    /\ work' = NoWork
    /\ UNCHANGED <<impl, compared, loadedFile, strayFile, fsVars, snapFile, read_queue, visited_track_paths,
                   nextId, opens, playVars>>

\* lines 226-238: the tables are rebuilt from the maps, in the order the maps
\* are scanned, and the library is returned
LibFinish ==
    /\ impl = "lib"
    /\ pc = "canon"
    /\ AllTasksDone
    /\ AllResolved
    /\ \E as \in SetToSeqs({artists[k] : k \in DOMAIN artists}),
          tg \in SetToSeqs({tags[k] : k \in DOMAIN tags}) :
            lib' = [lib EXCEPT !.artists = as, !.tags = tg]
    /\ pc' = "opened"
    /\ openLog' = Append(openLog, [paths |-> TrackPaths(lib), tracks |-> TrackFields(lib),
                                    after |-> lastOp])
    /\ lastOp' = "open"
    /\ artists' = EmptyMap
    /\ tags' = EmptyMap
    /\ tracks' = EmptyMap
    /\ playlists' = EmptyMap
    /\ work' = NoWork
    /\ UNCHANGED <<impl, compared, loadedFile, strayFile, fsVars, snapFile, read_queue, visited_track_paths,
                   nextId, opens, playVars>>

\* lines 293-302 (music.rs 148-157): Drop for MusicLibrary, the teardown of a
\* returned library
LibDrop ==
    /\ pc = "opened"
    /\ IF lib.path = RootPath
       THEN /\ \E o \in DropOutcomesAt(lib, snapFile) :
                 /\ snapFile' = o.file
                 /\ lastOp' = o.op
            /\ UNCHANGED strayFile
       ELSE /\ \E o \in DropOutcomesAt(lib, strayFile) :
                 /\ strayFile' = o.file
                 /\ lastOp' = o.op
            /\ UNCHANGED snapFile
    /\ pc' = "start"
    /\ lib' = EmptyLib(RootPath)
    /\ visited_track_paths' = {}
    /\ UNCHANGED <<impl, compared, loadedFile, fsVars, read_queue, mapVars, work, nextId, opens,
                   openLog, playVars>>

----------------------------------------------------------------------------
(* src/music.rs: MusicLibrary::new_from_path *)

GuiExtensions == {"wav", "mp3"}

\* lines 34-78: list the root, look for music_library.json among the
\* entries, load it; a loaded library is returned without a scan
GuiOpen ==
    /\ impl = "gui"
    /\ pc = "start"
    /\ opens < MaxOpens
    /\ opens' = opens + 1
    /\ loadedFile' = IF rootOk THEN snapFile ELSE loadedFile
    /\ IF ~rootOk
       THEN /\ pc' = "err"
            /\ read_queue' = <<>>
            /\ UNCHANGED <<lib, openLog, lastOp>>
       ELSE \E q \in SetToSeqs(Children(<<>>)) :
            IF snapFile.kind = "json"
            THEN /\ lib' = [Deserialize(opens + 1, snapFile) EXCEPT !.path = RootPath]
                 /\ read_queue' = <<>>
                 /\ pc' = "opened"
                 /\ openLog' = Append(openLog, [paths |-> TrackPaths(lib'),
                                    tracks |-> TrackFields(lib'), after |-> lastOp])
                 /\ lastOp' = "open"
            ELSE /\ lib' = EmptyLib(RootPath)
                 /\ read_queue' = q
                 /\ pc' = "scan"
                 /\ UNCHANGED <<openLog, lastOp>>
    /\ UNCHANGED <<impl, compared, strayFile, fsVars, snapFile, visited_track_paths, mapVars, work,
                   nextId, playVars>>

\* lines 79-137: one iteration of the work-list loop
GuiScanStep ==
    /\ impl = "gui"
    /\ pc = "scan"
    /\ read_queue # <<>>
    /\ LET item == read_queue[Len(read_queue)]
           rest == SubSeq(read_queue, 1, Len(read_queue) - 1)
       IN  IF ~item.typeOk
           THEN /\ read_queue' = rest
                /\ UNCHANGED lib
           ELSE IF item.kind = "file"
           THEN /\ read_queue' = rest
                /\ IF /\ IsSome(Extension(item.name))
                      /\ item.utf8
                      /\ Unwrap(Extension(item.name)) \in GuiExtensions
                   THEN lib' = [lib EXCEPT !.tracks =
                              Append(@, ScannedTrack(opens, Len(lib.tracks) + 1, item))]
                   ELSE UNCHANGED lib
           ELSE IF item.kind = "dir" /\ item.listable
           THEN /\ \E q \in SetToSeqs(Children(EntryPath(item))) :
                        read_queue' = rest \o q
                /\ UNCHANGED lib
           ELSE /\ read_queue' = rest
                /\ UNCHANGED lib
    /\ UNCHANGED <<impl, compared, loadedFile, strayFile, fsVars, snapFile, pc, visited_track_paths, mapVars, work,
                   nextId, opens, openLog, lastOp, playVars>>

\* line 140: Ok(lib)
GuiReturn ==
    /\ impl = "gui"
    /\ pc = "scan"
    /\ read_queue = <<>>
    /\ pc' = "opened"
    /\ openLog' = Append(openLog, [paths |-> TrackPaths(lib), tracks |-> TrackFields(lib),
                                    after |-> lastOp])
    /\ lastOp' = "open"
    /\ UNCHANGED <<impl, compared, loadedFile, strayFile, fsVars, snapFile, lib, read_queue, visited_track_paths,
                   mapVars, work, nextId, opens, playVars>>

----------------------------------------------------------------------------
(* Tag table operations of segue-attacca-lib *)

Min(a, b) == IF a < b THEN a ELSE b

\* str::to_lowercase on ASCII
ToLowercase(v) == [k \in DOMAIN v |-> IF v[k] \in 65..90 THEN v[k] + 32 ELSE v[k]]

\* Ord for String
StrLess(a, b) ==
    \E k \in 1..(Min(Len(a), Len(b)) + 1) :
        /\ \A m \in 1..(k - 1) : a[m] = b[m]
        /\ \/ k > Len(a) /\ k <= Len(b)
           \/ k <= Len(a) /\ k <= Len(b) /\ a[k] < b[k]

\* position of x in a sorted table: after every entry whose key is not greater
InsertByKey(sorted, x) ==
    LET n == Cardinality({k \in DOMAIN sorted :
                 ~StrLess(ToLowercase(x.val), ToLowercase(sorted[k].val))})
    IN  SubSeq(sorted, 1, n) \o <<x>> \o SubSeq(sorted, n + 1, Len(sorted))

RECURSIVE SortByKey(_)
\* line 261: self.tags.sort_by_key(|tag| tag.to_lowercase()), a stable sort
SortByKey(s) ==
    IF s = <<>> THEN <<>>
    ELSE InsertByKey(SortByKey(SubSeq(s, 1, Len(s) - 1)), s[Len(s)])

\* Arc::strong_count: the holders of the allocation, the table included
StrongCount(l, tag) ==
    Cardinality({k \in DOMAIN l.tags : l.tags[k].id = tag.id})
    + Cardinality({k \in DOMAIN l.artists : l.artists[k].id = tag.id})
    + Cardinality({x \in {<<i, j>> : i \in DOMAIN l.tracks, j \in 1..MaxTrackTags} :
            /\ x[2] \in DOMAIN l.tracks[x[1]].tags
            /\ l.tracks[x[1]].tags[x[2]].id = tag.id})
    + Cardinality({i \in DOMAIN l.tracks :
            IsSome(l.tracks[i].artist) /\ Unwrap(l.tracks[i].artist).id = tag.id})

\* a tag of the table is held when a track carries that allocation
HeldByTrack(l, tag) ==
    \E i \in DOMAIN l.tracks : \E j \in DOMAIN l.tracks[i].tags :
        l.tracks[i].tags[j].id = tag.id

\* an add_tag that never looks the string up in the table
AddTagFresh(i, v) ==
    /\ impl = "lib"
    /\ pc = "opened"
    /\ Len(lib.tracks[i].tags) < MaxTrackTags
    /\ LET tag == Arc(Id(opens, "add_tag", nextId, 0), v)
       IN  /\ nextId < MaxAllocs
           /\ nextId' = nextId + 1
           /\ lib' = [lib EXCEPT !.tracks[i].tags = Append(@, tag),
                                 !.tags = SortByKey(Append(@, tag))]
    /\ lastOp' = "add_tag"
    /\ UNCHANGED <<impl, compared, loadedFile, strayFile, fsVars, snapFile, pc, read_queue, visited_track_paths,
                   mapVars, work, opens, openLog, playVars>>

\* lines 245-262: MusicLibrary::add_tag(track, tag)
AddTag(i, v) ==
    /\ impl = "lib"
    /\ pc = "opened"
    /\ Len(lib.tracks[i].tags) < MaxTrackTags
    /\ LET known == {k \in DOMAIN lib.tags : lib.tags[k].val = v}
       IN  IF known # {}
           THEN LET tag == lib.tags[CHOOSE k \in known : \A m \in known : k <= m]
                IN  /\ lib' = [lib EXCEPT !.tracks[i].tags = Append(@, tag),
                                          !.tags = SortByKey(@)]
                    /\ UNCHANGED nextId
           ELSE LET tag == Arc(Id(opens, "add_tag", nextId, 0), v)
                IN  /\ nextId < MaxAllocs
                    /\ nextId' = nextId + 1
                    /\ lib' = [lib EXCEPT !.tracks[i].tags = Append(@, tag),
                                          !.tags = SortByKey(Append(@, tag))]
    /\ lastOp' = "add_tag"
    /\ UNCHANGED <<impl, compared, loadedFile, strayFile, fsVars, snapFile, pc, read_queue, visited_track_paths,
                   mapVars, work, opens, openLog, playVars>>

\* Track.tags is a pub field (line 310): the owner of the library takes the
\* j-th tag off a track
UntagTrack(i, j) ==
    /\ impl = "lib"
    /\ pc = "opened"
    /\ j \in DOMAIN lib.tracks[i].tags
    /\ lib' = [lib EXCEPT !.tracks[i].tags = RemoveAt(@, j)]
    /\ lastOp' = "untag"
    /\ UNCHANGED <<impl, compared, loadedFile, strayFile, fsVars, snapFile, pc, read_queue, visited_track_paths,
                   mapVars, work, nextId, opens, openLog, playVars>>

RECURSIVE GcFirstLoop(_, _)
\* lines 272-277: for (i, _) in temp { if i < len { continue } remove(i) };
\* idx holds the 0-based indices
GcFirstLoop(tbl, idx) ==
    IF idx = <<>> THEN [tags |-> tbl, panic |-> FALSE]
    ELSE IF idx[1] < Len(tbl) THEN GcFirstLoop(tbl, Tail(idx))
    ELSE [tags |-> tbl, panic |-> TRUE]      \* Vec::remove out of bounds

RECURSIVE GcRemoveLoop(_, _)
\* lines 287-289: for i in indecies { self.tags.remove(i) }; Vec::remove
\* panics when i >= len
GcRemoveLoop(tbl, idx) ==
    IF idx = <<>> THEN [tags |-> tbl, panic |-> FALSE]
    ELSE IF idx[1] >= Len(tbl) THEN [tags |-> tbl, panic |-> TRUE]
    ELSE GcRemoveLoop(RemoveAt(tbl, idx[1] + 1), Tail(idx))

RECURSIVE IndicesWhere(_, _, _)
\* the 0-based indices k - 1, ascending, of the table entries that satisfy
\* held = (strong_count > 1)
IndicesWhere(l, k, held) ==
    IF k > Len(l.tags) THEN <<>>
    ELSE (IF (StrongCount(l, l.tags[k]) > 1) = held THEN <<k - 1>> ELSE <<>>)
         \o IndicesWhere(l, k + 1, held)

\* lines 264-290: MusicLibrary::gc_tags
GcResult(l) ==
    LET first == GcFirstLoop(l.tags, IndicesWhere(l, 1, TRUE))
    IN  IF first.panic THEN first
        ELSE GcRemoveLoop(first.tags, IndicesWhere([l EXCEPT !.tags = first.tags], 1, FALSE))

GcTags ==
    /\ impl = "lib"
    /\ pc = "opened"
    /\ LET r == GcResult(lib)
       IN  /\ lib' = [lib EXCEPT !.tags = r.tags]
           /\ IF r.panic
              THEN /\ pc' = "panic_gc"
                   /\ \E o \in DropOutcomes(lib') : snapFile' = o.file
              ELSE UNCHANGED <<pc, snapFile>>
    /\ lastOp' = "gc_tags"
    /\ UNCHANGED <<impl, compared, loadedFile, strayFile, fsVars, read_queue, visited_track_paths,
                   mapVars, work, nextId, opens, openLog, playVars>>

----------------------------------------------------------------------------
(* Edits of one track: Track::add_tag and the inspector of the TUI *)

\* lines 313-317: Track::add_tag(tag) pushes tag.into(), a new Arc<str>
TrackAddTag(i, v) ==
    /\ impl = "lib"
    /\ pc = "opened"
    /\ Len(lib.tracks[i].tags) < MaxTrackTags
    /\ nextId < MaxAllocs
    /\ nextId' = nextId + 1
    /\ lib' = [lib EXCEPT !.tracks[i].tags =
                  Append(@, Arc(Id(opens, "track_add_tag", nextId, 0), v))]
    /\ lastOp' = "track_add_tag"
    /\ UNCHANGED <<impl, compared, loadedFile, strayFile, fsVars, snapFile, pc, read_queue, visited_track_paths,
                   mapVars, work, opens, openLog, playVars>>

\* the fields the inspector selects
InspectorFields == {"None", "Name", "Art", "Artist", "Tags"}

\* the strings typed into the inspector
EditValues == {<<>>, StrR}

\* a typed string as a file name: its segments between the dots
TypedName(v) == IF v = StrR THEN <<"R">> ELSE <<"">>

\* src/segue-attacca-tui/src/main.rs lines 216-244: Enter in the inspector of
\* track i while the value v is being edited and field f is selected
InspectorEnter(i, f, v) ==
    /\ impl = "lib"
    /\ pc = "opened"
    /\ IF f = "Name"
       THEN /\ lib' = [lib EXCEPT !.tracks[i].name = TypedName(v)]
            /\ UNCHANGED nextId
       ELSE IF f = "Artist" /\ v # <<>>
       THEN /\ nextId < MaxAllocs
            /\ nextId' = nextId + 1
            /\ lib' = [lib EXCEPT !.tracks[i].artist =
                          Some(Arc(Id(opens, "inspector", nextId, 0), v))]
       ELSE IF f = "Artist"
       THEN /\ lib' = [lib EXCEPT !.tracks[i].artist = None]
            /\ UNCHANGED nextId
       ELSE UNCHANGED <<lib, nextId>>
    /\ lastOp' = "inspector_enter"
    /\ UNCHANGED <<impl, compared, loadedFile, strayFile, fsVars, snapFile, pc, read_queue, visited_track_paths,
                   mapVars, work, opens, openLog, playVars>>

----------------------------------------------------------------------------
(* src/music.rs: PartialEq for MusicLibrary *)

\* lines 249-257: a Track by value (derived PartialEq)
GuiTrack(p, n) ==
    [path |-> p, name |-> n, artist |-> None, album_art |-> None, tags |-> {}]

\* lines 281-292: a Playlist by value (derived PartialEq over all fields)
GuiPlaylist(mode) ==
    [name |-> None, items |-> <<>>, playback_mode |-> mode, play_queue |-> <<>>,
     first |-> TRUE]

\* lines 25-31: a MusicLibrary by value; tags maps a key to its Vec of Weak,
\* a Weak being Some(track) when it upgrades and None when it does not
GuiLib(p, ts, ps, tg) ==
    [path |-> p, tracks |-> ts, playlists |-> ps, tags |-> tg]

\* lines 159-247: eq(self, other); oa and ob are the orders in which the two
\* HashMaps are iterated.  Every loop runs over a zip, which ends with the
\* shorter side.
MusicLibraryEq(a, b, oa, ob) ==
    /\ \A k \in 1..Min(Len(a.tracks), Len(b.tracks)) :
           a.tracks[k] = b.tracks[k]
    /\ \A k \in 1..Min(Len(a.playlists), Len(b.playlists)) :
           a.playlists[k] = b.playlists[k]
    /\ \A k \in 1..Min(Len(oa), Len(ob)) :
           /\ oa[k] = ob[k]
           /\ LET values1 == a.tags[oa[k]]
                  values2 == b.tags[ob[k]]
              IN  \A m \in 1..Min(Len(values1), Len(values2)) :
                      /\ IsSome(values1[m])
                      /\ IsSome(values2[m])
                      /\ Unwrap(values1[m]) = Unwrap(values2[m])
    /\ a.path = b.path

\* one call of a == b on the i-th and j-th library; the clone of a map is
\* iterated in the order of the map
LibraryEq(i, j) ==
    /\ pc = "compare"
    /\ <<i, j>> \notin DOMAIN compared.out
    /\ compared' = [compared EXCEPT !.out =
            @ @@ (<<i, j>> :> MusicLibraryEq(compared.libs[i], compared.libs[j],
                                              compared.orders[i], compared.orders[j]))]
    /\ UNCHANGED <<impl, loadedFile, strayFile, fsVars, snapFile, pc, lib, read_queue,
                   visited_track_paths, mapVars, work, nextId, opens, openLog, lastOp,
                   playVars>>

----------------------------------------------------------------------------
(* src/music.rs: the playback iterator *)

PlaybackModes == {"Continuous", "Shuffle", "LoopContinuous", "LoopShuffle"}
ShuffleModes == {"Shuffle", "LoopShuffle"}
\* the loop arm without LoopContinuous
LoopModesShuffleOnly == {"LoopShuffle"}
\* line 366: the modes that start a new lap when the queue is empty
LoopModes == {"LoopContinuous", "LoopShuffle"}

\* the PlaylistItem values of the iterated playlist
ItemVals == {"A", "B", "C"}

\* a shuffle that draws every position independently
ShufflesWithRepeats(items) ==
    {[k \in DOMAIN items |-> items[f[k]]] : f \in [DOMAIN items -> DOMAIN items]}

\* slice::shuffle: every rearrangement of the items
Shuffles(items) ==
    {[k \in DOMAIN items |-> items[f[k]]] : f \in Permutations(DOMAIN items)}

RECURSIVE PlaylistNextLateCheck(_, _)
\* next() with the emptiness test made only after the queue ran dry
PlaylistNextLateCheck(p, sh) ==
    LET q == IF p.first
             THEN [p EXCEPT !.first = FALSE,
                            !.play_queue = IF p.playback_mode \in ShuffleModes
                                           THEN sh ELSE Reverse(p.items)]
             ELSE p
    IN  IF q.play_queue # <<>>
        THEN [pl |-> [q EXCEPT !.play_queue = SubSeq(@, 1, Len(@) - 1)],
              ret |-> Some(q.play_queue[Len(q.play_queue)]), calls |-> 1]
        ELSE IF q.playback_mode \in LoopModes
        THEN IF q.items = <<>>
             THEN [pl |-> [q EXCEPT !.first = TRUE], ret |-> None, calls |-> 2]
             ELSE LET r == PlaylistNextLateCheck([q EXCEPT !.first = TRUE], sh)
                  IN  [r EXCEPT !.calls = @ + 1]
        ELSE [pl |-> q, ret |-> None, calls |-> 1]

RECURSIVE PlaylistNextRestart(_, _)
\* next() that arms `first` again when a non-looping mode runs dry
PlaylistNextRestart(p, sh) ==
    IF p.items = <<>> THEN [pl |-> p, ret |-> None, calls |-> 1]
    ELSE LET q == IF p.first
                  THEN [p EXCEPT !.first = FALSE,
                                 !.play_queue = IF p.playback_mode \in ShuffleModes
                                                THEN sh ELSE Reverse(p.items)]
                  ELSE p
         IN  IF q.play_queue # <<>>
             THEN [pl |-> [q EXCEPT !.play_queue = SubSeq(@, 1, Len(@) - 1)],
                   ret |-> Some(q.play_queue[Len(q.play_queue)]), calls |-> 1]
             ELSE IF q.playback_mode \in LoopModes
             THEN LET r == PlaylistNextRestart([q EXCEPT !.first = TRUE], sh)
                  IN  [r EXCEPT !.calls = @ + 1]
             ELSE [pl |-> [q EXCEPT !.first = TRUE], ret |-> None, calls |-> 1]

RECURSIVE PlaylistNextDrain(_, _)
\* next() that moves the items into the working queue instead of cloning
\* them
PlaylistNextDrain(p, sh) ==
    IF p.items = <<>> THEN [pl |-> p, ret |-> None, calls |-> 1]
    ELSE LET q == IF p.first
                  THEN [p EXCEPT !.first = FALSE,
                                 !.items = <<>>,
                                 !.play_queue = IF p.playback_mode \in ShuffleModes
                                                THEN sh ELSE Reverse(p.items)]
                  ELSE p
         IN  IF q.play_queue # <<>>
             THEN [pl |-> [q EXCEPT !.play_queue = SubSeq(@, 1, Len(@) - 1)],
                   ret |-> Some(q.play_queue[Len(q.play_queue)]), calls |-> 1]
             ELSE IF q.playback_mode \in LoopModes
             THEN LET r == PlaylistNextDrain([q EXCEPT !.first = TRUE], sh)
                  IN  [r EXCEPT !.calls = @ + 1]
             ELSE [pl |-> q, ret |-> None, calls |-> 1]

RECURSIVE PlaylistNextResult(_, _)
\* lines 341-372: Iterator::next; sh is the order the shuffle produces when
\* the working queue is materialized; calls counts the activations of next()
\* (1, or 2 when line 368 recurses)
PlaylistNextResult(p, sh) ==
    IF p.items = <<>> THEN [pl |-> p, ret |-> None, calls |-> 1]
    ELSE LET q == IF p.first
                  THEN [p EXCEPT !.first = FALSE,
                                 !.play_queue = IF p.playback_mode \in ShuffleModes
                                                THEN sh ELSE Reverse(p.items)]
                  ELSE p
         IN  IF q.play_queue # <<>>
             THEN [pl |-> [q EXCEPT !.play_queue = SubSeq(@, 1, Len(@) - 1)],
                   ret |-> Some(q.play_queue[Len(q.play_queue)]), calls |-> 1]
             ELSE IF q.playback_mode \in LoopModes
             THEN LET r == PlaylistNextResult([q EXCEPT !.first = TRUE], sh)
                  IN  [r EXCEPT !.calls = @ + 1]
             ELSE [pl |-> q, ret |-> None, calls |-> 1]

PlaylistNext ==
    /\ pc = "play"
    /\ Len(pulled) < MaxPulls
    /\ \E sh \in Shuffles(playlist.items) :
        LET r == PlaylistNextResult(playlist, sh)
        IN  /\ playlist' = r.pl
            /\ pulled' = Append(pulled, r.ret)
    /\ UNCHANGED <<impl, compared, loadedFile, strayFile, fsVars, snapFile, pc, lib, read_queue, visited_track_paths,
                   mapVars, work, nextId, opens, openLog, lastOp>>

\* a Playlist whose `first` flag starts cleared
NewPlaylistNotFirst(items, mode, origin) ==
    [name |-> None, items |-> items, playback_mode |-> mode, play_queue |-> <<>>,
     first |-> FALSE, origin |-> origin]

\* a Playlist built by Playlist::default() (first = true, line 290) or read
\* by serde, which fills the skipped fields with bool::default() and
\* Vec::default() (lines 287-291)
NewPlaylist(items, mode, origin) ==
    [name |-> None, items |-> items, playback_mode |-> mode, play_queue |-> <<>>,
     first |-> (origin = "default"), origin |-> origin]

----------------------------------------------------------------------------
(* Initial states *)

NameGone == <<"gone", "mp3">>

\* no libraries are compared
NoCompare == [libs |-> <<>>, orders |-> <<>>, out |-> <<>>]

EqIdle == compared = NoCompare

\* no library is open, no playlist is iterated
LibIdle ==
    /\ lib = EmptyLib(RootPath)
    /\ loadedFile = NoFile("unread")
    /\ strayFile = AbsentFile
    /\ read_queue = <<>>
    /\ visited_track_paths = {}
    /\ artists = EmptyMap
    /\ tags = EmptyMap
    /\ tracks = EmptyMap
    /\ playlists = EmptyMap
    /\ work = NoWork
    /\ nextId = 0
    /\ opens = 0
    /\ openLog = <<>>
    /\ lastOp = "none"

PlayIdle ==
    /\ playlist = IdlePlay
    /\ pulled = <<>>

\* track records a snapshot file may hold
SnapTrackDatas ==
    {TrackData(<<n>>, n, a, None, tg) :
        n \in {NameA, NameGone},
        a \in {None} \cup {Some(v) : v \in ArtistVals},
        tg \in SeqsUpTo(TagVals, MaxTrackTags)}

PlainTrackDatas == {d \in SnapTrackDatas : d.artist = None /\ d.tags = <<>>}

RECURSIVE StrCount(_)
\* number of artist and tag strings in a sequence of track records
StrCount(ts) ==
    IF ts = <<>> THEN 0
    ELSE Len(ts[1].artist) + Len(ts[1].tags) + StrCount(Tail(ts))

SnapItemLists ==
    { <<>>,
      <<TrackItemData(<<NameA>>), PlaylistItemData(Some(1)),
        BlockItemData(<<TrackItemData(<<NameC>>), PlaylistItemData(None)>>)>> }

Uuids == {1, 2}

SnapPlaylistDatas ==
    {PlaylistData(<<112>>, its, u) : its \in SnapItemLists, u \in Uuids}

\* snapshot files: none, unreadable, unparseable, a catalog of tracks or a
\* catalog with playlists
TrackSnaps ==
    {LibData(OtherPath, ts, <<>>, <<>>, <<StrR>>) :
        ts \in {x \in SeqsUpTo(SnapTrackDatas, MaxSnapTracks) : StrCount(x) <= MaxSnapStrs}}

PlaylistSnaps ==
    {LibData(OtherPath, ts, ps, <<>>, <<>>) :
        ts \in SeqsUpTo({TrackData(<<NameGone>>, NameGone, None, None, <<>>)}, 1),
        ps \in SeqsUpTo(SnapPlaylistDatas, MaxSnapPlaylists) \ {<<>>}}

IngestSnaps ==
    {AbsentFile, UnopenableFile, CorruptFile} \cup TrackSnaps \cup PlaylistSnaps

IngestTrees == Trees({Entry(<<>>, NameA, "file", TRUE, TRUE, TRUE)})

\* segue-attacca-lib opens a root with any snapshot: one call of new_from_path
Init ==
    /\ impl = "lib"
    /\ pc = "start"
    /\ rootOk \in BOOLEAN
    /\ dirEntries \in IngestTrees
    /\ snapFile \in IngestSnaps
    /\ LibIdle
    /\ EqIdle
    /\ PlayIdle

Ingest ==
    \/ LibOpen
    \/ LibScanStep
    \/ LibSpawn
    \/ \E i \in DOMAIN work.t : WorkerStart(i)
    \/ \E i \in DOMAIN work.t : WorkerArtistInsert(i)
    \/ \E i \in DOMAIN work.t : WorkerArtistRead(i)
    \/ \E i \in DOMAIN work.t : \E j \in DOMAIN work.t[i].slots : WorkerTagInsert(i, j)
    \/ \E i \in DOMAIN work.t : \E j \in DOMAIN work.t[i].slots : WorkerTagRead(i, j)
    \/ \E i \in DOMAIN work.t : WorkerCollect(i)
    \/ \E i \in DOMAIN work.p : RegisterPlaylist(i)
    \/ \E i \in DOMAIN work.p : ResolvePlaylist(i)
    \/ LibFinish

Next == Ingest

Spec == Init /\ [][Next]_vars

----------------------------------------------------------------------------
(* Open, tear down, open again *)

\* a catalog whose tracks carry artists and tags and that holds a playlist
RichSnap ==
    LibData(OtherPath,
            <<TrackData(<<NameA>>, NameA, Some(StrR), None, <<StrLowR, StrLowR>>),
              TrackData(<<NameGone>>, NameGone, Some(StrR), None, <<StrLowR>>)>>,
            <<PlaylistData(<<112>>, <<TrackItemData(<<NameA>>)>>, 1)>>,
            <<StrR>>, <<StrLowR>>)

ReopenSnaps ==
    {AbsentFile, CorruptFile, RichSnap}
    \cup {LibData(OtherPath, ts, <<>>, <<>>, <<>>) :
            ts \in SeqsUpTo(PlainTrackDatas, MaxSnapTracks)}

InitReopen ==
    /\ impl \in {"lib", "gui"}
    /\ pc = "start"
    /\ rootOk = TRUE
    /\ dirEntries \in IngestTrees
    /\ snapFile \in ReopenSnaps
    /\ LibIdle
    /\ EqIdle
    /\ PlayIdle

NextReopen ==
    \/ Ingest
    \/ GuiOpen
    \/ GuiScanStep
    \/ GuiReturn
    \/ LibDrop

SpecReopen == InitReopen /\ [][NextReopen]_vars

----------------------------------------------------------------------------
(* Playlist resolution: snapshots whose playlists nest Blocks and refer to  *)
(* tracks and playlists that are and are not in the catalog                 *)

ResolveItemLists ==
    { <<>>,
      <<TrackItemData(<<NameA>>), PlaylistItemData(Some(1)),
        BlockItemData(<<TrackItemData(<<NameC>>), PlaylistItemData(None)>>)>>,
      <<BlockItemData(<<BlockItemData(<<PlaylistItemData(Some(2)),
                                        TrackItemData(<<NameGone>>)>>),
                        TrackItemData(<<NameA>>)>>),
        TrackItemData(<<NameGone>>), TrackItemData(<<NameA>>)>>,
      <<BlockItemData(<<PlaylistItemData(None)>>), BlockItemData(<<>>),
        PlaylistItemData(Some(1))>>,
      <<PlaylistItemData(Some(2)), TrackItemData(<<NameA>>), TrackItemData(<<NameA>>)>> }

ResolveTrackLists ==
    { <<>>,
      <<TrackData(<<NameGone>>, NameGone, None, None, <<>>)>>,
      <<TrackData(<<NameA>>, NameA, None, None, <<>>),
        TrackData(<<NameA>>, NameA, None, None, <<>>)>>,
      <<TrackData(<<NameA>>, NameA, None, None, <<>>),
        TrackData(<<NameA>>, NameB, None, None, <<>>)>> }

\* the i-th playlist of the file has uuid i
ResolvePlaylistLists ==
    UNION {{[i \in 1..n |-> PlaylistData(<<112>>, ls[i], i)] :
                ls \in [1..n -> ResolveItemLists]} : n \in 1..MaxSnapPlaylists}

ResolveSnaps ==
    {LibData(OtherPath, ts, ps, <<>>, <<>>) :
        ts \in ResolveTrackLists, ps \in ResolvePlaylistLists}

InitResolve ==
    /\ impl = "lib"
    /\ pc = "start"
    /\ rootOk = TRUE
    /\ dirEntries \in IngestTrees
    /\ snapFile \in ResolveSnaps
    /\ LibIdle
    /\ EqIdle
    /\ PlayIdle

NextResolve ==
    \/ LibOpen
    \/ LibScanStep
    \/ LibSpawn
    \/ \E i \in DOMAIN work.t : WorkerStart(i)
    \/ \E i \in DOMAIN work.t : WorkerCollect(i)
    \/ \E i \in DOMAIN work.p : RegisterPlaylist(i)
    \/ \E i \in DOMAIN work.p : ResolvePlaylist(i)
    \/ LibFinish

SpecResolve == InitResolve /\ [][NextResolve]_vars

----------------------------------------------------------------------------
(* The scanner, in both implementations *)

ScanTrees ==
    {T \in Trees(EntryUniverse \cup BadEntryUniverse) : Cardinality(T) <= MaxDirEntries}

ScanSnaps ==
    {AbsentFile, UnopenableFile, CorruptFile,
     LibData(OtherPath, <<TrackData(<<NameGone>>, NameGone, None, None, <<>>)>>,
             <<>>, <<>>, <<>>)}

InitScan ==
    /\ impl \in {"lib", "gui"}
    /\ pc = "start"
    /\ rootOk \in BOOLEAN
    /\ dirEntries \in ScanTrees
    /\ snapFile \in ScanSnaps
    /\ LibIdle
    /\ EqIdle
    /\ PlayIdle

NextScan ==
    \/ LibOpen
    \/ LibScanStep
    \/ LibSpawn
    \/ \E i \in DOMAIN work.t : WorkerStart(i)
    \/ \E i \in DOMAIN work.t : WorkerCollect(i)
    \/ LibFinish
    \/ GuiOpen
    \/ GuiScanStep
    \/ GuiReturn

SpecScan == InitScan /\ [][NextScan]_vars

\* the thread that runs new_from_path and the rayon workers it waits for
\* keep running
SpecScanFair == SpecScan /\ WF_vars(NextScan)

----------------------------------------------------------------------------
(* The tag table of an opened library *)

GcTagVals == {StrR, StrLowR, StrJ}

InitGc ==
    /\ impl = "lib"
    /\ pc = "start"
    /\ rootOk = TRUE
    /\ dirEntries = { Entry(<<>>, NameA, "file", TRUE, TRUE, TRUE),
                      Entry(<<>>, NameC, "file", TRUE, TRUE, TRUE) }
    /\ snapFile = AbsentFile
    /\ LibIdle
    /\ EqIdle
    /\ PlayIdle

NextGc ==
    \/ LibOpen
    \/ LibScanStep
    \/ LibSpawn
    \/ \E i \in DOMAIN work.t : WorkerStart(i)
    \/ \E i \in DOMAIN work.t : WorkerCollect(i)
    \/ LibFinish
    \/ \E i \in DOMAIN lib.tracks : \E v \in GcTagVals : AddTag(i, v)
    \/ \E i \in DOMAIN lib.tracks : \E j \in 1..MaxTrackTags : UntagTrack(i, j)
    \/ GcTags

SpecGc == InitGc /\ [][NextGc]_vars

----------------------------------------------------------------------------
(* add_tag and gc_tags on a freshly ingested catalog *)

\* a snapshot whose tables hold an artist and a tag that no track carries
StaleTableSnap ==
    LibData(OtherPath,
            <<TrackData(<<NameA>>, NameA, None, None, <<StrLowR>>)>>,
            <<>>, <<StrR>>, <<StrJ, StrLowR>>)

InitTag ==
    /\ impl = "lib"
    /\ pc = "start"
    /\ rootOk = TRUE
    /\ dirEntries = { Entry(<<>>, NameA, "file", TRUE, TRUE, TRUE),
                      Entry(<<>>, NameC, "file", TRUE, TRUE, TRUE) }
    /\ snapFile \in {AbsentFile, RichSnap, StaleTableSnap}
    /\ LibIdle
    /\ EqIdle
    /\ PlayIdle

NextTag ==
    \/ Ingest
    \/ \E i \in DOMAIN lib.tracks : \E v \in GcTagVals : AddTag(i, v)
    \/ GcTags

SpecTag == InitTag /\ [][NextTag]_vars

----------------------------------------------------------------------------
(* Track edits on a freshly ingested catalog *)

\* the catalog of RichSnap: a.mp3, also on disk, and gone.mp3 share the
\* artist and the tag of the tables
InitEdit ==
    /\ impl = "lib"
    /\ pc = "start"
    /\ rootOk = TRUE
    /\ dirEntries = { Entry(<<>>, NameA, "file", TRUE, TRUE, TRUE) }
    /\ snapFile = RichSnap
    /\ LibIdle
    /\ EqIdle
    /\ PlayIdle

NextEdit ==
    \/ Ingest
    \/ \E i \in DOMAIN lib.tracks : \E v \in TagVals : TrackAddTag(i, v)
    \/ \E i \in DOMAIN lib.tracks : \E f \in InspectorFields : \E v \in EditValues :
            InspectorEnter(i, f, v)

SpecEdit == InitEdit /\ [][NextEdit]_vars

----------------------------------------------------------------------------
(* Equality of src/music.rs libraries *)

\* libraries of different sizes over two tracks of one path, a playlist, tag
\* entries whose Weak does and does not upgrade, and two roots
EqLibs ==
    LET tA == GuiTrack(<<NameA>>, NameA)
        tB == GuiTrack(<<NameB>>, NameB)
        noTags == [k \in {} |-> <<>>]
    IN  { GuiLib(RootPath, <<>>, <<>>, noTags),
          GuiLib(OtherPath, <<>>, <<>>, noTags),
          GuiLib(RootPath, <<tA>>, <<>>, noTags),
          GuiLib(RootPath, <<tB>>, <<>>, noTags),
          GuiLib(RootPath, <<tA, tB>>, <<>>, noTags),
          GuiLib(RootPath, <<>>, <<GuiPlaylist("Shuffle")>>, noTags),
          GuiLib(RootPath, <<tA>>, <<>>, [k \in {StrLowR} |-> <<Some(tA)>>]),
          GuiLib(RootPath, <<tA>>, <<>>, [k \in {StrLowR} |-> <<None>>]),
          GuiLib(RootPath, <<>>, <<>>, [k \in {StrLowR, StrJ} |-> <<>>]) }

\* the pairs (i, j) of the three libraries that are compared
ComparedPairs == {<<1, 1>>, <<1, 2>>, <<2, 1>>, <<2, 3>>, <<1, 3>>}

InitEq ==
    /\ impl = "gui"
    /\ pc = "compare"
    /\ rootOk = TRUE
    /\ dirEntries = {}
    /\ snapFile = AbsentFile
    /\ LibIdle
    /\ PlayIdle
    /\ \E a, b, c \in EqLibs :
          \E oa \in SetToSeqs(DOMAIN a.tags), ob \in SetToSeqs(DOMAIN b.tags),
             oc \in SetToSeqs(DOMAIN c.tags) :
                compared = [libs |-> <<a, b, c>>, orders |-> <<oa, ob, oc>>, out |-> <<>>]

NextEq == \E p \in ComparedPairs : LibraryEq(p[1], p[2])

SpecEq == InitEq /\ [][NextEq]_vars

----------------------------------------------------------------------------
(* The playback iterator *)

InitPlay ==
    /\ impl = "none"
    /\ pc = "play"
    /\ rootOk = TRUE
    /\ dirEntries = {}
    /\ snapFile = AbsentFile
    /\ LibIdle
    /\ EqIdle
    /\ pulled = <<>>
    /\ \E its \in SeqsUpTo(ItemVals, MaxItems), m \in PlaybackModes,
          o \in {"default", "serde"} :
            playlist = NewPlaylist(its, m, o)

NextPlay == PlaylistNext

SpecPlay == InitPlay /\ [][NextPlay]_vars

----------------------------------------------------------------------------
(* Properties of ingestion (Spec) *)

Opened == impl = "lib" /\ pc = "opened"

\* C1: after new_from_path returns Ok, no two elements of the catalog's
\* track collection have the same path, whatever the snapshot and the
\* directory hold.
C1_NoTwoTracksWithOnePath ==
    Opened =>
        \A i, k \in DOMAIN lib.tracks :
            lib.tracks[i].path = lib.tracks[k].path => i = k

TrackTagArcs(l) == UNION {Range(l.tracks[i].tags) : i \in DOMAIN l.tracks}
TrackArtistArcs(l) == UNION {Range(l.tracks[i].artist) : i \in DOMAIN l.tracks}

\* every Arc of `carried` is the one entry of `table` that has its value
InternedIn(carried, table) ==
    \A a \in carried :
        /\ Cardinality({k \in DOMAIN table : table[k].val = a.val}) = 1
        /\ \E k \in DOMAIN table : table[k] = a

\* C2: after new_from_path returns Ok, every tag string and every artist
\* string carried by a track has exactly one entry in lib.tags / lib.artists,
\* and every track that carries the string holds that entry's allocation.
C2_OneSharedInstancePerString ==
    Opened =>
        /\ InternedIn(TrackTagArcs(lib), lib.tags)
        /\ InternedIn(TrackArtistArcs(lib), lib.artists)

\* two tracks of the returned catalog carry the same tag string, which the
\* snapshot held as two allocations
C2_Witness ==
    /\ Opened
    /\ \E i, k \in DOMAIN lib.tracks :
        /\ i # k
        /\ \E a \in Range(lib.tracks[i].tags), b \in Range(lib.tracks[k].tags) :
               a.val = b.val

\* the tag slots of the canonicalization pass whose insert has been made
InsertedSlots(v) ==
    {x \in {<<i, j>> : i \in DOMAIN work.t, j \in 1..MaxTrackTags} :
        /\ x[2] \in DOMAIN work.t[x[1]].slots
        /\ work.t[x[1]].slots[x[2]].st # "todo"
        /\ lib.tracks[x[1]].tags[x[2]].val = v}

InsertedArtists(v) ==
    {i \in DOMAIN work.t :
        /\ work.t[i].artist # "na"
        /\ Unwrap(lib.tracks[i].artist).val = v}

\* C3: when track workers intern the same new tag or artist string at the
\* same time, in every interleaving exactly one insertion wins, every loser
\* reads the winner's allocation and its track ends up holding it, and no
\* worker panics.
C3_ExactlyOneInsertionWins ==
    (impl = "lib" /\ pc \in {"canon", "panic_intern"}) =>
        /\ pc # "panic_intern"
        /\ \A v \in TagVals :
            LET S == InsertedSlots(v)
            IN  S # {} =>
                /\ Cardinality({x \in S : work.t[x[1]].slots[x[2]].st = "won"}) = 1
                /\ \A x \in S :
                    /\ work.t[x[1]].slots[x[2]].st \in {"won", "read"}
                           => work.t[x[1]].slots[x[2]].out = tags[v]
                    /\ work.t[x[1]].pc = "done"
                           => lib.tracks[x[1]].tags[x[2]] = tags[v]
        /\ \A v \in ArtistVals :
            LET S == InsertedArtists(v)
            IN  S # {} =>
                /\ Cardinality({i \in S : work.t[i].artist = "won"}) = 1
                /\ \A i \in S :
                    work.t[i].pc \in {"tags", "done"}
                        => lib.tracks[i].artist = Some(artists[v])

\* two tasks hold their tracks' locks at once; one has won the insertion of a
\* tag string, the other has lost it and is about to read
C3_Witness ==
    /\ impl = "lib"
    /\ pc = "canon"
    /\ \E i, k \in DOMAIN work.t :
        /\ i # k
        /\ work.t[i].pc = "tags"
        /\ work.t[k].pc = "tags"
        /\ \E j \in DOMAIN work.t[i].slots, m \in DOMAIN work.t[k].slots :
            /\ work.t[i].slots[j].st = "won"
            /\ work.t[k].slots[m].st = "lost"
            /\ lib.tracks[i].tags[j].val = lib.tracks[k].tags[m].val

----------------------------------------------------------------------------
(* Properties of the tag garbage collector (SpecGc) *)

InTable(l, tag) == \E k \in DOMAIN l.tags : l.tags[k].id = tag.id

\* C4: gc_tags never removes from the tag table a tag that a track holds,
\* whatever the table holds and wherever its held and unheld tags are.
C4_GcKeepsHeldTags ==
    [][GcTags =>
          \A k \in DOMAIN lib.tags :
              HeldByTrack(lib, lib.tags[k]) => InTable(lib', lib.tags[k])]_vars

\* C5: after gc_tags returns, every tag that remains in the tag table is
\* held by at least one track.
C5_GcLeavesOnlyHeldTags ==
    (Opened /\ lastOp = "gc_tags") =>
        \A k \in DOMAIN lib.tags : HeldByTrack(lib, lib.tags[k])

\* C6: gc_tags is idempotent: a second call that directly follows a call
\* leaves the tag table as the first call left it.
C6_GcIdempotent ==
    [][(Opened /\ lastOp = "gc_tags" /\ GcTags) => lib'.tags = lib.tags]_vars

\* C31: gc_tags returns normally for every tag table: no call removes at an
\* index that is out of bounds, however many tags are unheld and wherever
\* they are.
C31_GcNeverOutOfBounds ==
    [][GcTags => pc' # "panic_gc"]_vars

----------------------------------------------------------------------------
(* Properties of a loaded playlist (SpecPlay) *)

\* C34: a Playlist loaded from a snapshot starts like a constructed one, with
\* the start-of-lap flag set and an empty working queue, and a loaded
\* non-empty Continuous or Shuffle playlist yields all of its items before it
\* returns None.
C34_LoadedPlaylistStartsFresh ==
    (pc = "play" /\ playlist.origin = "serde") =>
        /\ pulled = <<>> => (playlist.first /\ playlist.play_queue = <<>>)
        /\ (playlist.playback_mode \in {"Continuous", "Shuffle"}) =>
               \A i \in DOMAIN pulled : i <= Len(playlist.items) => pulled[i] # None

\* C37: a pull never changes the item list, the name or the playback mode
\* of the playlist; next() writes only the working queue and the
\* start-of-lap flag, in every mode and state.
C37_NextKeepsItemsNameAndMode ==
    [][PlaylistNext =>
          /\ playlist'.items = playlist.items
          /\ playlist'.name = playlist.name
          /\ playlist'.playback_mode = playlist.playback_mode]_vars

\* a LoopShuffle playlist of three items has been pulled through the end of
\* its first lap into the second
C37_Witness ==
    /\ pc = "play"
    /\ playlist.playback_mode = "LoopShuffle"
    /\ Len(playlist.items) = 3
    /\ Len(pulled) = 5
    /\ playlist.play_queue # <<>>

----------------------------------------------------------------------------
(* Properties of the snapshot file during an open (Spec) *)

\* C32: from the read of a snapshot that parses until the teardown of the
\* returned library, music_library.json still holds the tracks and
\* playlists that were loaded.
C32_OpenLeavesSnapshotAlone ==
    (impl = "lib" /\ pc \in {"scan", "canon", "opened"} /\ loadedFile.kind = "json") =>
        /\ snapFile.kind = "json"
        /\ snapFile.tracks = loadedFile.tracks
        /\ snapFile.playlists = loadedFile.playlists

\* C33: a new_from_path call that fails because the root cannot be listed
\* writes no snapshot: music_library.json under the root is as it was, and
\* is not created when it was absent.
C33_FailedOpenWritesNothing ==
    [][(LibOpen /\ ~rootOk) => snapFile' = snapFile]_vars

----------------------------------------------------------------------------
(* Properties of tagging a fresh catalog (SpecTag) *)

\* C29: from a freshly ingested catalog, after any sequence of
\* MusicLibrary::add_tag and gc_tags calls, the tag table has at most one
\* entry per string value, and every tag a track carries is the allocation
\* of the table's entry for its string.
C29_AddTagAndGcKeepInterning ==
    Opened =>
        /\ \A k, m \in DOMAIN lib.tags :
               lib.tags[k].val = lib.tags[m].val => k = m
        /\ InternedIn(TrackTagArcs(lib), lib.tags)

\* gc_tags has just returned on a catalog in which two tracks carry a tag
\* that add_tag allocated, next to a tag of another string
C29_Witness ==
    /\ Opened
    /\ lastOp = "gc_tags"
    /\ Len(lib.tags) >= 2
    /\ \E i, k \in DOMAIN lib.tracks :
           /\ i # k
           /\ \E a \in Range(lib.tracks[i].tags) :
                  a.id[2] = "add_tag" /\ a \in Range(lib.tracks[k].tags)

\* the string values of a sequence of Arcs
ValuesOf(arcs) == {arcs[k].val : k \in DOMAIN arcs}

\* C35: right after new_from_path returns, the tag table and the artist
\* table hold exactly the distinct values that tracks carry, once each, and
\* a gc_tags call made then removes nothing.
C35_TablesHoldExactlyTheCarriedValues ==
    [][(Opened /\ lastOp = "open") =>
          /\ ValuesOf(lib.tags) = {a.val : a \in TrackTagArcs(lib)}
          /\ ValuesOf(lib.artists) = {a.val : a \in TrackArtistArcs(lib)}
          /\ Cardinality(ValuesOf(lib.tags)) = Len(lib.tags)
          /\ Cardinality(ValuesOf(lib.artists)) = Len(lib.artists)
          /\ GcTags => (lib'.tags = lib.tags /\ pc' = "opened")]_vars

\* gc_tags has run right after the open of a root whose snapshot tables held
\* the tag "j" and the artist "R", which no track carries
C35_Witness ==
    /\ Opened
    /\ lastOp = "gc_tags"
    /\ nextId = 0
    /\ StrJ \in Range(loadedFile.tags)
    /\ StrR \in Range(loadedFile.artists)
    /\ StrJ \notin ValuesOf(lib.tags)
    /\ lib.tags # <<>>

----------------------------------------------------------------------------
(* Properties of track edits (SpecEdit) *)

\* C30: after Track::add_tag and after the inspector commits an edit, every
\* tag and artist attached to a track is the one entry of its table for that
\* string, so two tracks with the same tag or artist string hold one
\* allocation.
C30_EditsKeepInterning ==
    (Opened /\ lastOp \in {"track_add_tag", "inspector_enter"}) =>
        /\ InternedIn(TrackTagArcs(lib), lib.tags)
        /\ InternedIn(TrackArtistArcs(lib), lib.artists)
        /\ \A a, b \in TrackTagArcs(lib) \cup TrackArtistArcs(lib) :
               a.val = b.val => a.id = b.id

----------------------------------------------------------------------------
(* Properties of reopening (SpecReopen) *)

\* C7: open, tear down with the snapshot saved, open the unchanged directory
\* again: the second catalog has the track paths of the first and one track
\* per path.
C7_ReopenKeepsPathsOnce ==
    (Opened /\ Len(openLog) = 2 /\ openLog[2].after = "drop_saved") =>
        /\ openLog[2].paths = openLog[1].paths
        /\ \A i, k \in DOMAIN lib.tracks :
               lib.tracks[i].path = lib.tracks[k].path => i = k

\* C27: open, tear down with the snapshot saved, open the same root again:
\* for every track of the first catalog the second catalog holds a track with
\* the same path, name, artist value, album_art and tag sequence.
C27_TrackDataRoundTrips ==
    (Opened /\ Len(openLog) = 2 /\ openLog[2].after = "drop_saved") =>
        \A i \in DOMAIN openLog[1].tracks :
            \E k \in DOMAIN lib.tracks :
                TrackFields(lib)[k] = openLog[1].tracks[i]

\* the second catalog after a saved teardown of a first one whose track
\* a.mp3, also found by both scans, carried an artist and two tags
C27_Witness ==
    /\ Opened /\ Len(openLog) = 2 /\ openLog[2].after = "drop_saved"
    /\ Entry(<<>>, NameA, "file", TRUE, TRUE, TRUE) \in dirEntries
    /\ \E i \in DOMAIN openLog[1].tracks :
           /\ openLog[1].tracks[i].path = <<NameA>>
           /\ openLog[1].tracks[i].artist = Some(StrR)
           /\ Len(openLog[1].tracks[i].tags) = 2

----------------------------------------------------------------------------
(* Properties of the scanner (SpecScan) *)

AudioExtensions == {"wav", "mp3", "flac"}

\* root-relative paths of the regular files with an audio extension
AudioPaths(T) ==
    {EntryPath(e) : e \in {f \in T : /\ f.kind = "file"
                                     /\ IsSome(Extension(f.name))
                                     /\ Unwrap(Extension(f.name)) \in AudioExtensions}}

\* C8: with no snapshot file and every entry readable, the tracks of the
\* catalog that new_from_path returns, in the lib crate and in src/music.rs,
\* are the regular files with extension wav, mp3 or flac, by root-relative
\* path, each once; no other file makes a track.
C8_TracksAreTheAudioFiles ==
    (pc = "opened" /\ snapFile.kind = "absent" /\ AllReadable(dirEntries)) =>
        /\ TrackPaths(lib) = AudioPaths(dirEntries)
        /\ Len(lib.tracks) = Cardinality(AudioPaths(dirEntries))

----------------------------------------------------------------------------
(* Error handling of ingestion (Spec) *)

\* C9: new_from_path fails only when the root cannot be opened; on every
\* other input, whatever the entries and the snapshot hold, it does not
\* abort.
C9_OnlyTheRootIsFatal ==
    /\ ~Panicked
    /\ pc = "err" => ~rootOk

----------------------------------------------------------------------------
(* Properties of the playback iterator (SpecPlay) *)

\* C10: a Continuous playlist in its initial iteration state with n >= 1
\* items yields items[i] on its i-th pull and None on pull n + 1.
C10_ContinuousYieldsItemsInOrder ==
    (/\ pc = "play"
     /\ playlist.playback_mode = "Continuous"
     /\ playlist.origin = "default"
     /\ Len(playlist.items) >= 1) =>
        \A i \in DOMAIN pulled :
            /\ i <= Len(playlist.items) => pulled[i] = Some(playlist.items[i])
            /\ i = Len(playlist.items) + 1 => pulled[i] = None

\* a Continuous playlist of three items, two of them different, has been
\* pulled four times
C10_Witness ==
    /\ pc = "play"
    /\ playlist.playback_mode = "Continuous"
    /\ playlist.origin = "default"
    /\ Len(playlist.items) = 3
    /\ playlist.items[1] # playlist.items[3]
    /\ Len(pulled) = 4

\* out is the items, each taken once, in some order
IsArrangement(out, items) ==
    /\ Len(out) = Len(items)
    /\ \E f \in Permutations(DOMAIN items) :
           \A i \in DOMAIN items : out[i] = Some(items[f[i]])

\* C11: a LoopContinuous playlist with n >= 1 items yields items[k mod n] on
\* its k-th pull (k counted from 0) and never yields None.
C11_LoopContinuousCycles ==
    (/\ pc = "play"
     /\ playlist.playback_mode = "LoopContinuous"
     /\ Len(playlist.items) >= 1) =>
        \A i \in DOMAIN pulled :
            pulled[i] = Some(playlist.items[((i - 1) % Len(playlist.items)) + 1])

\* a LoopContinuous playlist of two different items has been pulled six times
C11_Witness ==
    /\ pc = "play"
    /\ playlist.playback_mode = "LoopContinuous"
    /\ Len(playlist.items) = 2
    /\ playlist.items[1] # playlist.items[2]
    /\ Len(pulled) = 6

\* C12: a Shuffle playlist in its initial iteration state with n >= 1 items
\* yields, whatever order the shuffle draws, every item once in its first n
\* pulls and None on pull n + 1.
C12_ShuffleYieldsEachItemOnce ==
    (/\ pc = "play"
     /\ playlist.playback_mode = "Shuffle"
     /\ playlist.origin = "default"
     /\ Len(playlist.items) >= 1) =>
        LET n == Len(playlist.items)
        IN  /\ \A i \in DOMAIN pulled : i <= n => IsSome(pulled[i])
            /\ Len(pulled) >= n => IsArrangement(SubSeq(pulled, 1, n), playlist.items)
            /\ Len(pulled) > n => pulled[n + 1] = None

\* a Shuffle playlist of three different items has been pulled four times and
\* came out neither in list order nor in reverse
C12_Witness ==
    /\ pc = "play"
    /\ playlist.playback_mode = "Shuffle"
    /\ playlist.origin = "default"
    /\ playlist.items = <<"A", "B", "C">>
    /\ Len(pulled) = 4
    /\ pulled[1] = Some("B")
    /\ pulled[2] = Some("A")

\* C13: a LoopShuffle playlist with n >= 1 items never yields None, every
\* lap of n pulls yields every item once, and at the end of a lap the working
\* queue is empty, so that the next lap starts from a fresh shuffle.
C13_LoopShuffleLaps ==
    (/\ pc = "play"
     /\ playlist.playback_mode = "LoopShuffle"
     /\ Len(playlist.items) >= 1) =>
        LET n == Len(playlist.items)
        IN  /\ \A i \in DOMAIN pulled : IsSome(pulled[i])
            /\ \A j \in 0..MaxPulls :
                   (j + 1) * n <= Len(pulled) =>
                       IsArrangement(SubSeq(pulled, j * n + 1, (j + 1) * n),
                                     playlist.items)
            /\ (Len(pulled) > 0 /\ Len(pulled) % n = 0) => playlist.play_queue = <<>>

\* a LoopShuffle playlist of two different items has played two laps in two
\* different orders
C13_Witness ==
    /\ pc = "play"
    /\ playlist.playback_mode = "LoopShuffle"
    /\ playlist.items = <<"A", "B">>
    /\ Len(pulled) = 4
    /\ pulled[1] # pulled[3]

\* C14: on a playlist with no items next() returns None on every pull in
\* all four playback modes, in a single activation (line 368 is not reached).
C14_EmptyListYieldsNone ==
    (pc = "play" /\ playlist.items = <<>>) =>
        /\ \A i \in DOMAIN pulled : pulled[i] = None
        /\ \A sh \in Shuffles(playlist.items) :
               LET r == PlaylistNextResult(playlist, sh)
               IN  r.ret = None /\ r.calls = 1

\* an empty LoopShuffle playlist has been pulled twice
C14_Witness ==
    /\ pc = "play"
    /\ playlist.items = <<>>
    /\ playlist.playback_mode = "LoopShuffle"
    /\ Len(pulled) = 2

\* C15: in Continuous and Shuffle mode, once a pull has returned None every
\* later pull on the same playlist returns None.
C15_NoneIsFinal ==
    (pc = "play" /\ playlist.playback_mode \in {"Continuous", "Shuffle"}) =>
        \A i, j \in DOMAIN pulled :
            (i < j /\ pulled[i] = None) => pulled[j] = None

\* a Shuffle playlist of two items has yielded both and has been pulled
\* twice more
C15_Witness ==
    /\ pc = "play"
    /\ playlist.playback_mode = "Shuffle"
    /\ Len(playlist.items) = 2
    /\ Len(pulled) = 4
    /\ IsSome(pulled[2])
    /\ pulled[3] = None

----------------------------------------------------------------------------
(* Properties of playlist resolution (SpecResolve) *)

RECURSIVE ItemShapes(_)
\* kinds, paths and nesting of an item list, without allocation identities
ItemShapes(items) ==
    [k \in DOMAIN items |->
        [kind |-> items[k].kind,
         path |-> items[k].track.path,
         items |-> ItemShapes(items[k].items)]]

\* a Playlist item whose weak reference upgrades to a registered playlist
Resolves(item) ==
    /\ IsSome(item.weak)
    /\ \E k \in DOMAIN lib.playlists :
           /\ lib.playlists[k].id = Unwrap(item.weak)
           /\ lib.playlists[k].uuid \in DOMAIN playlists

RECURSIVE KeptShapes(_)
\* what resolution is to leave of an item list: the Playlist items that
\* resolve, the Track items whose path is a known track, and every Block with
\* what is to be left of its children, in the order of the list
KeptShapes(items) ==
    IF items = <<>> THEN <<>>
    ELSE LET it == Head(items)
             rest == KeptShapes(Tail(items))
             one == ItemShapes(<<it>>)
         IN  IF it.kind = "Playlist"
             THEN IF Resolves(it) THEN one \o rest ELSE rest
             ELSE IF it.kind = "Track"
             THEN IF it.track.path \in DOMAIN tracks THEN one \o rest ELSE rest
             ELSE <<[kind |-> "Block", path |-> <<>>, items |-> KeptShapes(it.items)]>>
                      \o rest

RECURSIVE HasKind(_, _)
\* an item of the kind occurs in the list, at any depth
HasKind(items, kind) ==
    \E k \in DOMAIN items :
        items[k].kind = kind \/ HasKind(items[k].items, kind)

RECURSIVE AllPlaylistItemsResolve(_)
\* every Playlist item of the list, at any depth, resolves
AllPlaylistItemsResolve(items) ==
    \A k \in DOMAIN items :
        /\ items[k].kind = "Playlist" => Resolves(items[k])
        /\ AllPlaylistItemsResolve(items[k].items)

\* C16: when a playlist is resolved, every Playlist item whose weak
\* reference does not upgrade (or whose target is not registered) is removed
\* from the list that holds it, the items that resolve stay in their order,
\* and the resolution does not fail.
C16_DanglingPlaylistItemsAreDropped ==
    [][\A i \in DOMAIN work.p :
          ResolvePlaylist(i) =>
              /\ AllPlaylistItemsResolve(lib'.playlists[i].items)
              /\ ItemShapes(lib'.playlists[i].items) = KeptShapes(lib.playlists[i].items)
              /\ pc' = "canon"]_vars

\* new_from_path has returned a catalog with a playlist that was loaded as
\* [Track a.mp3, Playlist, Block [Track c.flac, Playlist]] and now holds
\* the track and the block, in this order, and no Playlist item
C16_Witness ==
    /\ Opened
    /\ snapFile.kind = "json"
    /\ \E i \in DOMAIN lib.playlists :
        /\ i \in DOMAIN snapFile.playlists
        /\ snapFile.playlists[i].items =
               <<TrackItemData(<<NameA>>), PlaylistItemData(Some(1)),
                 BlockItemData(<<TrackItemData(<<NameC>>), PlaylistItemData(None)>>)>>
        /\ ItemShapes(lib.playlists[i].items) =
               <<[kind |-> "Track", path |-> <<NameA>>, items |-> <<>>],
                 [kind |-> "Block", path |-> <<>>, items |-> <<>>]>>

RECURSIVE BlocksKept(_, _)
\* the Blocks of `before` are the Blocks of `after`, one for one and in
\* order, each with what is to be left of its children, at every depth
BlocksKept(before, after) ==
    LET IsBlock(it) == it.kind = "Block"
        bb == SelectSeq(before, IsBlock)
        ab == SelectSeq(after, IsBlock)
    IN  /\ Len(ab) = Len(bb)
        /\ \A k \in DOMAIN bb :
               /\ k \in DOMAIN ab
               /\ ItemShapes(ab[k].items) = KeptShapes(bb[k].items)
               /\ BlocksKept(bb[k].items, ab[k].items)

\* C17: resolution keeps every Block, at every nesting depth, with its
\* children resolved: those that fail are dropped, the others keep their
\* order, and a Block whose children all fail stays as an empty Block.
C17_BlocksAreAlwaysKept ==
    [][\A i \in DOMAIN work.p :
          ResolvePlaylist(i) =>
              BlocksKept(lib.playlists[i].items, lib'.playlists[i].items)]_vars

\* a playlist loaded as [Block [Block [Playlist, Track gone.mp3], Track
\* a.mp3], ...] has been resolved with neither path known: the outer Block
\* holds the inner Block, which is empty
C17_Witness ==
    /\ Opened
    /\ \E i \in DOMAIN lib.playlists :
        /\ Len(lib.playlists[i].items) = 1
        /\ ItemShapes(lib.playlists[i].items) =
               <<[kind |-> "Block", path |-> <<>>,
                  items |-> <<[kind |-> "Block", path |-> <<>>, items |-> <<>>]>>]>>

RECURSIVE TrackItemsOf(_)
\* the tracks that the Track items of the list refer to, at any depth
TrackItemsOf(items) ==
    UNION {IF items[k].kind = "Track" THEN {items[k].track}
           ELSE TrackItemsOf(items[k].items) : k \in DOMAIN items}

\* C18: after new_from_path returns Ok, every Track item of every playlist,
\* at any depth, has the path of a catalog track and is the same instance as
\* the catalog's track of that path.
C18_TrackItemsShareTheCatalogTrack ==
    Opened =>
        \A i \in DOMAIN lib.playlists :
            \A t \in TrackItemsOf(lib.playlists[i].items) :
                /\ t.path \in TrackPaths(lib)
                /\ \A k \in DOMAIN lib.tracks :
                       lib.tracks[k].path = t.path => lib.tracks[k].id = t.id

\* the uuids of the playlists a snapshot file holds
FileUuids(f) == {f.playlists[i].uuid : i \in DOMAIN f.playlists}

\* C20: a Playlist item that the snapshot file records with a target that is
\* one of the file's playlists is, after new_from_path has loaded the file,
\* at the same position of the same playlist and refers to the catalog's
\* playlist with the target's uuid.
C20_BackReferencesSurviveReload ==
    (Opened /\ snapFile.kind = "json") =>
        \A i \in DOMAIN snapFile.playlists :
            \A k \in DOMAIN snapFile.playlists[i].items :
                LET d == snapFile.playlists[i].items[k]
                IN  (/\ d.kind = "Playlist"
                     /\ IsSome(d.target)
                     /\ Unwrap(d.target) \in FileUuids(snapFile)) =>
                        /\ i \in DOMAIN lib.playlists
                        /\ k \in DOMAIN lib.playlists[i].items
                        /\ lib.playlists[i].items[k].kind = "Playlist"
                        /\ \E q \in DOMAIN lib.playlists :
                               /\ lib.playlists[q].uuid = Unwrap(d.target)
                               /\ lib.playlists[i].items[k].weak = Some(lib.playlists[q].id)

----------------------------------------------------------------------------
(* Properties of ingestion, continued (Spec) *)

\* C21: when a playlist is registered under a uuid that another playlist of
\* the snapshot has registered, the earlier registration stays as it is and
\* the collision is surfaced: the registration does not complete.
C21_UuidCollisionIsSurfaced ==
    [][\A i \in DOMAIN work.p :
          (RegisterPlaylist(i) /\ lib.playlists[i].uuid \in DOMAIN playlists) =>
              /\ playlists' = playlists
              /\ playlists[lib.playlists[i].uuid] # lib.playlists[i].id
              /\ pc' = "panic_register"
              /\ work'.p[i] = "idle"]_vars

\* the second of two playlists with one uuid has met the registration of
\* the first
C21_Witness ==
    /\ impl = "lib"
    /\ pc = "panic_register"
    /\ \E i, k \in DOMAIN lib.playlists :
        /\ i # k
        /\ lib.playlists[i].uuid = lib.playlists[k].uuid
        /\ lib.playlists[i].uuid \in DOMAIN playlists
        /\ playlists[lib.playlists[i].uuid] = lib.playlists[i].id

----------------------------------------------------------------------------
(* Properties of the scanner, continued (SpecScan) *)

RECURSIVE Reachable(_, _)
\* the scan gets to the entry: every directory above it can be typed and
\* listed
Reachable(e, T) ==
    \/ e.dir = <<>>
    \/ \E d \in T : /\ d.kind = "dir"
                     /\ EntryPath(d) = e.dir
                     /\ d.typeOk
                     /\ d.listable
                     /\ Reachable(d, T)

\* root-relative paths of the readable regular files with one of the
\* extensions that the scan gets to
ScannablePaths(T, exts) ==
    {EntryPath(e) : e \in {f \in T : /\ f.kind = "file"
                                     /\ f.typeOk
                                     /\ f.utf8
                                     /\ IsSome(Extension(f.name))
                                     /\ Unwrap(Extension(f.name)) \in exts
                                     /\ Reachable(f, T)}}

\* the extensions the scan of the implementation in use looks for
ScanExtensions == IF impl = "lib" THEN LibExtensions ELSE GuiExtensions

\* C22: when music_library.json is missing, cannot be opened or cannot be
\* parsed, new_from_path returns a catalog with the root it was given as
\* path, one track for every file its scan finds and no other track, no
\* playlists and empty artist and tag tables.
C22_UnreadableSnapshotMeansFreshScan ==
    (pc = "opened" /\ loadedFile.kind \in {"absent", "unopenable", "corrupt"}) =>
        /\ lib.path = RootPath
        /\ TrackPaths(lib) = ScannablePaths(dirEntries, ScanExtensions)
        /\ Len(lib.tracks) = Cardinality(ScannablePaths(dirEntries, ScanExtensions))
        /\ lib.playlists = <<>>
        /\ lib.artists = <<>>
        /\ lib.tags = <<>>

\* the lib crate has returned from a root whose snapshot does not parse
\* and that holds a.mp3 and a subdirectory with b.wav
C22_Witness ==
    /\ pc = "opened"
    /\ impl = "lib"
    /\ loadedFile.kind = "corrupt"
    /\ TrackPaths(lib) = {<<NameA>>, <<NameSub, NameB>>}

\* C26: the lib crate's scan of a root it can open, whatever entries of the
\* tree cannot be typed, listed or named, comes to its end without aborting,
\* and new_from_path returns a catalog that holds every readable audio file
\* the scan gets to.
C26_BadEntriesAreSkipped ==
    (impl = "lib" /\ rootOk /\ pc = "start")
        ~> (/\ pc = "opened"
            /\ ScannablePaths(dirEntries, AudioExtensions) \subseteq TrackPaths(lib))

\* the lib crate has returned a catalog with b.wav of the subdirectory from
\* a root that also holds a file whose name is not UTF-8
C26_Witness ==
    /\ Opened
    /\ \E e \in dirEntries : ~e.utf8
    /\ <<NameSub, NameB>> \in TrackPaths(lib)

\* the string values of a track's tags, in the track's order
TagValues(t) == [j \in DOMAIN t.tags |-> t.tags[j].val]

\* C25: after new_from_path returns, every track carries the tag strings it
\* was loaded with, as many and in the same order, in every interleaving of
\* the workers; a track made by the scan carries none.
C25_TagOrderIsPreserved ==
    Opened =>
        \A i \in DOMAIN lib.tracks :
            TagValues(lib.tracks[i]) =
                IF i \in DOMAIN loadedFile.tracks THEN loadedFile.tracks[i].tags ELSE <<>>

\* a track loaded with the tags "j", "r" has been canonicalized
C25_Witness ==
    /\ Opened
    /\ \E i \in DOMAIN lib.tracks : TagValues(lib.tracks[i]) = <<StrJ, StrLowR>>

\* the track paths a snapshot file holds
FilePaths(f) == {f.tracks[i].path : i \in DOMAIN f.tracks}

\* C24: when the snapshot loads, the track paths of the catalog that
\* new_from_path returns, in the lib crate and in src/music.rs, are the
\* snapshot's track paths together with the paths of the audio files the
\* scan gets to, and every audio file the snapshot does not know has exactly
\* one track.
C24_LoadedSnapshotIsMergedWithScan ==
    (pc = "opened" /\ loadedFile.kind = "json") =>
        /\ TrackPaths(lib) =
               FilePaths(loadedFile) \cup ScannablePaths(dirEntries, AudioExtensions)
        /\ \A q \in ScannablePaths(dirEntries, AudioExtensions) \ FilePaths(loadedFile) :
               Cardinality({i \in DOMAIN lib.tracks : lib.tracks[i].path = q}) = 1

----------------------------------------------------------------------------
(* Properties of reopening, continued (SpecReopen) *)

\* C23: the catalog that new_from_path(p) returns has path p whatever root
\* the loaded snapshot names, and a teardown writes p/music_library.json
\* and never the file of the root named in the old snapshot.
C23_SnapshotPathNeverRelocates ==
    /\ pc = "opened" => lib.path = RootPath
    /\ strayFile = AbsentFile

\* a catalog loaded from a snapshot that names another root has been torn
\* down and its snapshot, naming the root it was opened with, is in the root
C23_Witness ==
    /\ loadedFile.kind = "json"
    /\ loadedFile.path = OtherPath
    /\ loadedFile.tracks # <<>>
    /\ lastOp = "drop_saved"
    /\ snapFile.kind = "json"
    /\ snapFile.path = RootPath
    /\ snapFile.tracks # <<>>

----------------------------------------------------------------------------
(* Properties of the worker schedule (SpecResolve) *)

\* the fields of the catalog track that is the allocation id
FieldsOfTrack(id) ==
    TrackFields(lib)[CHOOSE k \in DOMAIN lib.tracks : lib.tracks[k].id = id]

\* the fields of the first catalog track that has the path: the track that
\* wins tracks.insert when the track tasks run one after the other
FieldsOfFirst(path) ==
    TrackFields(lib)[CHOOSE k \in DOMAIN lib.tracks :
                        /\ lib.tracks[k].path = path
                        /\ \A m \in DOMAIN lib.tracks :
                               lib.tracks[m].path = path => k <= m]

\* C36: the returned catalog is the one the sequential schedule yields,
\* whatever the interleaving of the workers: the loaded tracks keep their
\* fields, the track paths are those of the snapshot and the scan, the tables
\* hold the carried values, and every Track item of every playlist refers to
\* a track with the field values of the first catalog track of its path.
C36_ResultIsScheduleIndependent ==
    Opened =>
        /\ \A i \in DOMAIN loadedFile.tracks :
               TrackFields(lib)[i] = loadedFile.tracks[i]
        /\ TrackPaths(lib) =
               {loadedFile.tracks[i].path : i \in DOMAIN loadedFile.tracks}
               \cup ScannablePaths(dirEntries, LibExtensions)
        /\ {lib.tags[k].val : k \in DOMAIN lib.tags}
               = {a.val : a \in TrackTagArcs(lib)}
        /\ \A i \in DOMAIN lib.playlists :
               \A t \in TrackItemsOf(lib.playlists[i].items) :
                   FieldsOfTrack(t.id) = FieldsOfFirst(t.path)

----------------------------------------------------------------------------
(* Properties of library equality (SpecEq) *)

\* the two libraries have as many tracks, playlists and tag entries
SameSizes(a, b) ==
    /\ Len(a.tracks) = Len(b.tracks)
    /\ Len(a.playlists) = Len(b.playlists)
    /\ Cardinality(DOMAIN a.tags) = Cardinality(DOMAIN b.tags)

Has(i, j) == <<i, j>> \in DOMAIN compared.out
Out(i, j) == compared.out[<<i, j>>]

\* C38: == on src/music.rs libraries is an equivalence relation that tells
\* apart catalogs of different sizes: libraries that compare equal have as
\* many tracks, playlists and tag entries, a == a holds, a == b agrees with
\* b == a, and a == b with b == c gives a == c.
C38_EqIsAnEquivalence ==
    pc = "compare" =>
        /\ \A p \in DOMAIN compared.out :
               compared.out[p] => SameSizes(compared.libs[p[1]], compared.libs[p[2]])
        /\ Has(1, 1) => Out(1, 1)
        /\ (Has(1, 2) /\ Has(2, 1)) => (Out(1, 2) = Out(2, 1))
        /\ (Has(1, 2) /\ Has(2, 3) /\ Has(1, 3)) =>
               ((Out(1, 2) /\ Out(2, 3)) => Out(1, 3))

====
